---- MODULE Spec2Model ----
(***************************************************************************)
(* Model of the job-execution layer of comfy-runpod:                       *)
(*   - docker/handler.py: queue_prompt, wait_for_completion (local engine) *)
(*   - scripts/send-to-runpod.py: submit_job, poll_status (remote queue)   *)
(*   - docker/handler.py: start_comfyui_server, wait_for_health_check,     *)
(*     ensure_comfyui_running (process supervisor)                         *)
(*   - docker/handler.py: capture_comfyui_output, get_recent_comfyui_logs  *)
(*     (captured-output buffer); handler, validate_workflow,               *)
(*     create_error_response (one request through the handler)             *)
(*   - test_workflow_trimming.py: get_node_dependencies, trim_workflow     *)
(*     (dependency resolver)                                               *)
(* Time is a discrete clock `now` (seconds); every blocking call (an HTTP  *)
(* request, a sleep) advances it.                                          *)
(***************************************************************************)
EXTENDS Integers, Sequences, FiniteSets, TLC

\* ------------------------------------------------------------------ bounds
\* Longest time one HTTP request may take (the code's request timeouts of
\* 5, 10 and 30 seconds, scaled down).
MaxDur == 2
\* Largest configured execution timeout drawn for a job.
MaxTimeout == 4
\* Largest health_check_interval / poll_interval drawn.
MaxInterval == 2

\* Largest configured health_check_timeout (readiness window) drawn.
MaxHealthTimeout == 2
\* Number of process slots the host offers the supervisor; a slot is free
\* again once its process is dead and no handle refers to it.
MaxProcs == 2

\* Capacity of the captured-output buffer (Queue(maxsize=1000), scaled down).
MaxQueue == 3
\* Number of lines get_recent_comfyui_logs is asked for (max_lines = 20 in
\* create_error_response, scaled down; it stays below the capacity).
RecentLines == 2
\* Number of lines the worker process prints in a run.
MaxLines == 5

\* Largest number of nodes in a workflow handed to the handler.
MaxWorkflowNodes == 2

\* Number of node ids a workflow graph and its references are drawn from.
MaxNodes == 3

\* Requests counted one by one; later ones are counted as the last.
MaxRequests == 2

\* Lines a killed process may leave unread in its pipe.
MaxBacklog == 2

\* Number of answers the transport gives before it only answers Running.
MaxAnswers == 3

\* Number of entries of the output directory.
MaxFiles == 3

\* Number of image entries an output node declares at most.
MaxImages == 2

\* How far below and above a configured minimum the environment's values
\* are drawn.
MaxOff == 2

\* Number of nodes of a graph whose trim is followed step by step.
MaxWalkNodes == 2

\* Deepest recursion the interpreter allows before it raises RecursionError
\* (Python's limit of 1000 frames, scaled down to one frame more than the
\* longest chain of distinct nodes).
RecursionLimit == MaxNodes + 1

\* --------------------------------------------------------- program constants
\* handler.py:396  time.sleep(2) between two polls of the local engine
LocalPollSleep == 2
\* handler.py:124  time.sleep(1) between two readiness probes
ReadinessSleep == 1
\* comfyui_process = None
None == 0

Dur == 0..MaxDur
Timeouts == 0..MaxTimeout
Intervals == 1..MaxInterval
HealthTimeouts == 0..MaxHealthTimeout
Pids == 1..MaxProcs
\* The request threads; the sequential specification runs the first only.
Threads == {1, 2}
SeqThreads == {1}

\* What the transport may answer to a submission: HTTP 200 with or without a
\* job id in the body, another 2xx, 4xx, 5xx, or a request error (requests
\* follows redirects itself, so the final answer is none of 3xx).
SubmitResps == {"200", "200_noid", "2xx", "4xx", "5xx", "reqerror"}
\* What the local engine's /history/{id} may answer: the job is not in the
\* history yet, it is there but neither completed nor in error, completed,
\* status_str == "error", or the request raised a RequestException.
LocalStatuses == {"absent", "running", "completed", "error", "reqerror"}
\* What the remote queue's /status/{id} may answer.
RemoteStatuses == {"IN_QUEUE", "IN_PROGRESS", "COMPLETED", "FAILED", "CANCELLED",
                   "UNKNOWN", "non200", "reqtimeout", "reqerror"}
\* What the liveness probe (/system_stats) may answer.
ProbeResults == {"ok200", "non200", "noresp"}

VARIABLES
    mode,                   \* "local" (handler.py) or "remote" (send-to-runpod.py)
    now,                    \* the clock, time.time()
    timeout,                \* config.handler.execution_timeout / args.timeout
    poll_interval,          \* args.poll_interval (remote)
    health_check_interval,  \* config.handler.health_check_interval (local)
    pc,                     \* position of the request in the code
    start_time,             \* wait_for_completion / poll_status local
    last_health_check,      \* wait_for_completion local
    outcome,                \* how the request ended ("none" while running)
    \* history of the run, read by the properties only
    submit_at,              \* time at which submit was issued
    entered_at,             \* time at which the polling loop was entered
    checked_at,             \* time of the last loop test that let the loop go on
    submits,                \* number of submissions issued
    submit_resp,            \* the transport's answer to the submission
    polls,                  \* number of status polls issued
    late_polls,             \* polls started after more than timeout had elapsed
    term,                   \* the first terminal status a poll observed
    last_probe,             \* the last mid-wait liveness probe's answer
    benign,                 \* the submission was accepted and every answer so far
                            \* was non-terminal and returned
    \* the process supervisor (handler.py:36-38 and 130-230)
    comfyui_process,        \* the global handle: None or the pid it refers to
    server_ready,           \* the global ready flag
    health_check_timeout,   \* config.handler.health_check_timeout
    proc,                   \* per process slot: "free", "alive", "exited", "killed"
    init_done,              \* initialize_worker has returned
    init_result,            \* history: what initialize_worker's start returned
    requests,               \* history: requests begun, counted up to MaxRequests
    spc,                    \* per thread: position in the supervisor's code
    call,                   \* per thread: the external call in progress or last made
    via,                    \* per thread: the branch of ensure_comfyui_running taken
    elapsed,                \* per thread: time.time() - start_time in wait_for_health_check
    ret,                    \* per thread: what the last call returned
    \* history of the current call, read by the properties only
    spawns,                 \* per thread: processes spawned by the call
    last_spawn,             \* per thread: the process the call spawned last
    got200,                 \* per thread: a readiness probe of the call answered 200
    entry_ready,            \* per thread: the supervisor was Ready when the call began
    spawn_failed,           \* per thread: Popen raised in the call
    ok_since_spawn,         \* a liveness probe answered 200 since the latest spawn
    total_spawns            \* 0 until the first spawn, then 1

jobVars == <<mode, now, timeout, poll_interval, health_check_interval, pc,
             start_time, last_health_check, outcome, submit_at, entered_at,
             checked_at, submits, submit_resp, polls, late_polls, term,
             last_probe, benign>>

supVars == <<comfyui_process, server_ready, health_check_timeout, proc, init_done, init_result, requests,
             spc, call, via, elapsed, ret, spawns, last_spawn, got200, entry_ready,
             spawn_failed, ok_since_spawn, total_spawns>>

VARIABLES
    \* the captured-output buffer (handler.py:39-94)
    comfyui_output_queue,   \* the queue's content, oldest line first
    captured,               \* number of lines read from the worker's output so far
    rpc,                    \* per reader thread: position in reader_thread
    decoded_line,           \* per reader thread: the line in hand (0: none)
    lpc,                    \* position of the request thread in get_recent_comfyui_logs
    logs,                   \* get_recent_comfyui_logs' local list
    \* history, read by the properties only
    snap,                   \* the buffer's content when get_recent_comfyui_logs began
    lost,                   \* captured lines that were never enqueued
    lost_free,              \* a captured line was lost while the buffer had free space
    dropped_nonfull,        \* the reader discarded a line while the buffer was not full
    \* the reader threads over a restart (handler.py:169, 224-230)
    reader,                 \* per reader thread: unstarted, live, draining, ended
    backlog,                \* per reader thread: lines left in the pipe of its dead process
    put_by,                 \* history: the reader of each enqueue, 0 where a new reader started
    \* history of get_recent_comfyui_logs
    reported,               \* the lines returned by the calls so far
    reported_twice          \* a call returned a line that had been returned before

genVars == <<reader, backlog, put_by>>
reportVars == <<reported, reported_twice>>
bufVars == <<comfyui_output_queue, captured, rpc, decoded_line, lpc, logs, snap,
             lost, lost_free, dropped_nonfull, genVars, reportVars>>

VARIABLES
    \* one request through handler (handler.py:479-553)
    event,                  \* the request: its input's workflow, reference_images, return_base64
    hpc,                    \* position of the request in handler
    validation_errors,      \* handler's local: what validate_workflow returned
    err_args,               \* the arguments of the pending create_error_response call
    response,               \* what handler returned
    failed_step,            \* history: the step that failed ("none": no step)
    performed               \* history: the steps performed, each with its result

hdlVars == <<event, hpc, validation_errors, err_args, response, failed_step, performed>>

VARIABLES
    \* the dependency resolver (test_workflow_trimming.py:4-43)
    workflow,               \* the graph: node id -> node record
    target_node_ids,        \* the targets
    gpc,                    \* "input", then "trimmed" or "twice"
    trimmed,                \* what trim_workflow(workflow, target_node_ids) returned
    reclosed,               \* the closure, in workflow, of the nodes trimmed keeps
    retrimmed               \* what trim_workflow(trimmed, target_node_ids) returned

graphVars == <<workflow, target_node_ids, gpc, trimmed, reclosed, retrimmed>>

VARIABLES
    \* calculate_node_depths on `workflow` (custom_nodes/runpod-queue/__init__.py:35-69)
    depths,                 \* the memo and result: node id -> depth
    keys_left,              \* keys the loop at 66 has not reached yet
    dstack,                 \* the active get_depth calls, innermost last
    dpc,                    \* "loop" while running, then "done" or "raised"
    \* history, read by the properties only
    computed,               \* per node: number of times line 62 assigned its depth
    dsteps                  \* number of steps taken

depthVars == <<depths, keys_left, dstack, dpc, computed, dsteps>>

VARIABLES
    \* one trim_workflow(workflow, target_node_ids) call, step by step
    \* (test_workflow_trimming.py:4-43)
    targets_left,           \* targets the loop at 34 has not reached yet
    required_nodes,         \* the set `dependencies` of the running or last get_node_dependencies call
    wstack,                 \* the active visit_node calls, innermost last
    all_required_nodes,     \* trim_workflow's local
    wtrimmed,               \* what trim_workflow returned
    wpc,                    \* "loop" while running, then "done" or "raised"
    \* history, read by the properties only
    expanded,               \* per node: number of times line 16-20 started on its inputs
    wsteps                  \* number of steps taken

walkVars == <<targets_left, required_nodes, wstack, all_required_nodes, wtrimmed, wpc,
              expanded, wsteps>>

VARIABLES
    \* the worker's settings (config.py:86-88, 130-150; handler.py:106-107,
    \* 355-356, 563-566)
    env,                    \* the process environment: each setting unset or its value
    handler_config,         \* config.handler: execution_timeout, health_check_timeout
    cfg_errors,             \* what config.validate() returned
    cpc,                    \* "import", "init", "start", "serve", then "done"
    health_timeout_used,    \* timeout as bound in wait_for_health_check
    completion_timeout_used \* timeout as bound in wait_for_completion

cfgVars == <<env, handler_config, cfg_errors, cpc, health_timeout_used,
             completion_timeout_used>>

VARIABLES
    \* get_output_images and the success response (handler.py:401-435, 535-548)
    prompt_history,         \* the completed job's history: its outputs, node by node
    return_base64,          \* the request's return_base64
    ipc,                    \* "collect", "cleanup", "success", "raised", then "returned"
    node_at,                \* position of the loop at 414 in outputs
    img_at,                 \* position of the loop at 416 in the node's images
    images,                 \* the list get_output_images builds
    img_response,           \* what handler returned
    \* history, read by the properties only
    taken                   \* the entries an artifact was appended for, in order

imgVars == <<prompt_history, return_base64, ipc, node_at, img_at, images, img_response,
             taken>>

VARIABLES
    \* cleanup_outputs and the handler's return after it (utils.py:188-229,
    \* handler.py:539-548)
    output_dir,             \* the directory: whether it exists and can be listed, its entries
    kpc,                    \* "cleanup", "sweep", "after", then "returned"
    file_at,                \* position of the loop at 205 in the listing
    removed_count,          \* cleanup_outputs' local
    cleanup_ret,            \* what cleanup_outputs returned
    job_status,             \* the status of handler's response
    \* history, read by the properties only
    removed,                \* the entries os.remove deleted
    delete_failed,          \* the entries os.remove raised for
    stat_failed             \* os.path.getmtime raised

cleanVars == <<output_dir, kpc, file_at, removed_count, cleanup_ret, job_status, removed,
               delete_failed, stat_failed>>

VARIABLES
    \* the end of the remote client's run (send-to-runpod.py:509-528)
    exit_code,              \* "none" while running, "1" after sys.exit(1), "0" after main returned
    saved_files             \* number of artifacts save_results wrote

runVars == <<exit_code, saved_files>>

VARIABLES
    \* the start of the remote client's run (send-to-runpod.py:473-500)
    args,                   \* the command line: api_key, endpoint_id, "" when not given
    runpod_config,          \* config.runpod: api_key, endpoint_id, "" when not set
    api_key,                \* main's local
    endpoint_id,            \* main's local
    credentials_ok          \* what check_credentials returned ("none" before the call)

mainVars == <<args, runpod_config, api_key, endpoint_id, credentials_ok>>

VARIABLES
    \* wait_for_completion and poll_status side by side on the same inputs
    \* (handler.py:359-398, send-to-runpod.py:319-372)
    answers,                \* the abstract statuses the transport returns, in order
    both_timeout,           \* the timeout given to both loops
    both_interval,          \* the poll interval given to both loops
    local_run,              \* wait_for_completion: elapsed, polls, outcome
    remote_run              \* poll_status: elapsed, polls, outcome

pairVars == <<answers, both_timeout, both_interval, local_run, remote_run>>

\* The variables of the subsystems added after the resolver.
laterVars == <<depthVars, walkVars, cfgVars, imgVars, cleanVars, runVars, mainVars,
               pairVars>>
\* The variables of the subsystems other than the job and the supervisor.
otherVars == <<bufVars, hdlVars, graphVars, laterVars>>
\* The variables of the subsystems other than the buffer.
nonBufVars == <<hdlVars, graphVars, laterVars>>
\* The variables of the subsystems other than the handler.
nonHdlVars == <<bufVars, graphVars, laterVars>>
\* The variables of the subsystems other than the resolver.
nonGraphVars == <<bufVars, hdlVars, laterVars>>
\* The variables of the subsystems other than the depth computation.
nonDepthVars == <<bufVars, hdlVars, graphVars, walkVars, cfgVars, imgVars,
                 cleanVars, runVars, mainVars, pairVars>>
\* All but the step-by-step trim's variables.
nonWalkVars == <<bufVars, hdlVars, graphVars, depthVars, cfgVars, imgVars,
                 cleanVars, runVars, mainVars, pairVars>>
\* All but the image collection's variables.
nonImgVars == <<bufVars, hdlVars, graphVars, depthVars, walkVars, cfgVars,
                 cleanVars, runVars, mainVars, pairVars>>
\* All but the cleanup's variables.
nonCleanVars == <<bufVars, hdlVars, graphVars, depthVars, walkVars, cfgVars, imgVars,
                  runVars, mainVars, pairVars>>
\* All but the variables of the remote client's end.
nonRunVars == <<bufVars, hdlVars, graphVars, depthVars, walkVars, cfgVars, imgVars,
                cleanVars, mainVars, pairVars>>
\* All but the variables of the remote client's start.
nonMainVars == <<bufVars, hdlVars, graphVars, depthVars, walkVars, cfgVars, imgVars,
                 cleanVars, runVars, pairVars>>
\* All but the variables of the two loops side by side.
nonPairVars == <<bufVars, hdlVars, graphVars, depthVars, walkVars, cfgVars, imgVars,
                 cleanVars, runVars, mainVars>>
\* All but the settings' variables.
nonCfgVars == <<bufVars, hdlVars, graphVars, depthVars, walkVars, imgVars,
                 cleanVars, runVars, mainVars, pairVars>>

vars == <<jobVars, supVars, otherVars>>

\* -------------------------------------------------------------- pure parts

\* handler.py:336  response.raise_for_status(): raises for 4xx and 5xx; a
\* request error raises from requests.post itself.
LocalSubmitAccepted(resp) == resp \in {"200", "200_noid", "2xx"}

RemoteSubmitAccepted_M(resp) == resp \in {"200", "4xx", "5xx", "reqerror"}

\* send-to-runpod.py:282-297,504  status_code == 200 and a non-empty job id.
RemoteSubmitAccepted(resp) == resp = "200"

LocalLoopContinues_M(el, tmo) == el + 2 < tmo

\* handler.py:362  while time.time() - start_time < timeout
LocalLoopContinues(el, tmo) == el < tmo

\* send-to-runpod.py:327  if elapsed > timeout: return None
RemoteExpired(el, tmo) == el > tmo

\* handler.py:364  time.time() - last_health_check > health_check_interval
HealthCheckDue(sinceLast, interval) == sinceLast > interval

\* handler.py:365-369  requests.get(...) in a bare try/except: only a raised
\* exception aborts; the response's status code is not looked at.
WaitProbeAborts(p) == p = "noresp"

LocalPollOutcome_M(s) ==
    CASE s = "completed" -> "completed"
      [] OTHER           -> "none"

\* handler.py:379-391  what one poll of the local engine decides: the outcome
\* that ends the loop, or "none" to go on.
LocalPollOutcome(s) ==
    CASE s = "completed" -> "completed"
      [] s = "error"     -> "failed"
      [] OTHER           -> "none"

RemotePollOutcome_M(s) ==
    CASE s = "COMPLETED" -> "completed"
      [] s = "FAILED"    -> "failed"
      [] s = "CANCELLED" -> "cancelled"
      [] s \in {"IN_QUEUE", "IN_PROGRESS", "reqtimeout"} -> "none"
      [] OTHER           -> "poll_error"

RemotePollOutcome_Cancel(s) ==
    CASE s = "COMPLETED" -> "completed"
      [] s = "FAILED"    -> "failed"
      [] s = "non200"    -> "poll_error"
      [] s = "reqerror"  -> "poll_error"
      [] OTHER           -> "none"

\* send-to-runpod.py:334-372  what one poll of the remote queue decides.
RemotePollOutcome(s) ==
    CASE s = "COMPLETED" -> "completed"
      [] s = "FAILED"    -> "failed"
      [] s = "CANCELLED" -> "cancelled"
      [] s = "non200"    -> "poll_error"
      [] s = "reqerror"  -> "poll_error"
      [] OTHER           -> "none"

LoopStart_M(submitIssuedAt, enteredAt) == submitIssuedAt

\* handler.py:359 / send-to-runpod.py:319  start_time = time.time(), read when
\* the polling function is entered, after submit has returned.
LoopStart(submitIssuedAt, enteredAt) == enteredAt

LocalTerminal == {"completed", "error"}
RemoteTerminal == {"COMPLETED", "FAILED", "CANCELLED"}
\* The answers under which a loop must run into its timeout.
LocalBenign == {"absent", "running", "reqerror"}
RemoteBenign == {"IN_QUEUE", "IN_PROGRESS", "UNKNOWN", "reqtimeout"}

\* ------------------------------------------------------------------- Init
JobInit ==
    /\ mode \in {"local", "remote"}
    /\ now = 0
    /\ timeout \in Timeouts
    /\ poll_interval \in Intervals
    /\ health_check_interval \in Intervals
    /\ pc = "submit"
    /\ start_time = 0
    /\ last_health_check = 0
    /\ outcome = "none"
    /\ submit_at = 0
    /\ entered_at = 0
    /\ checked_at = 0
    /\ submits = 0
    /\ submit_resp = "none"
    /\ polls = 0
    /\ late_polls = 0
    /\ term = "none"
    /\ last_probe = "none"
    /\ benign = TRUE

config == <<mode, timeout, poll_interval, health_check_interval>>

\* --------------------------------------------------- local engine (handler)

\* handler.py:529-530 with 320-342: the handler queues the prompt once; an
\* exception (raise_for_status, request error) goes to the handler's except
\* clause, which answers with an error response.
queue_prompt ==
    /\ mode = "local" /\ pc = "submit"
    /\ \E d \in Dur, resp \in SubmitResps :
        /\ submit_at' = now
        /\ now' = now + d
        /\ submits' = submits + 1
        /\ submit_resp' = resp
        /\ IF LocalSubmitAccepted(resp)
             THEN pc' = "enter" /\ outcome' = outcome /\ benign' = benign
             ELSE pc' = "done" /\ outcome' = "submit_error" /\ benign' = FALSE
    /\ UNCHANGED <<otherVars, supVars, config, start_time, last_health_check, entered_at, checked_at,
                   polls, late_polls, term, last_probe>>

\* handler.py:533 with 355-360: entering wait_for_completion.
wait_enter ==
    /\ mode = "local" /\ pc = "enter"
    /\ start_time' = LoopStart(submit_at, now)
    /\ last_health_check' = now
    /\ entered_at' = now
    /\ pc' = "check"
    /\ UNCHANGED <<otherVars, supVars, config, now, outcome, submit_at, checked_at, submits, submit_resp,
                   polls, late_polls, term, last_probe, benign>>

\* handler.py:362 and 398: the loop test; leaving the loop raises the timeout.
wait_check ==
    /\ mode = "local" /\ pc = "check"
    /\ IF LocalLoopContinues(now - start_time, timeout)
         THEN pc' = "health" /\ outcome' = outcome /\ checked_at' = now
         ELSE pc' = "done" /\ outcome' = "timeout" /\ checked_at' = checked_at
    /\ UNCHANGED <<otherVars, supVars, config, now, start_time, last_health_check, submit_at, entered_at,
                   submits, submit_resp, polls, late_polls, term, last_probe, benign>>

\* handler.py:363-369: the periodic health check.
wait_health ==
    /\ mode = "local" /\ pc = "health"
    /\ IF HealthCheckDue(now - last_health_check, health_check_interval)
         THEN \E d \in Dur, p \in ProbeResults :
                /\ now' = now + d
                /\ last_probe' = p
                /\ IF WaitProbeAborts(p)
                     THEN /\ pc' = "done" /\ outcome' = "unresponsive"
                          /\ last_health_check' = last_health_check
                          /\ benign' = FALSE
                     ELSE /\ pc' = "poll" /\ outcome' = outcome
                          /\ last_health_check' = now + d
                          /\ benign' = benign
         ELSE /\ pc' = "poll"
              /\ UNCHANGED <<now, last_probe, outcome, last_health_check, benign>>
    /\ UNCHANGED <<otherVars, supVars, config, start_time, submit_at, entered_at, checked_at, submits,
                   submit_resp, polls, late_polls, term>>

\* handler.py:371-394: one poll of /history/{prompt_id}.
wait_poll ==
    /\ mode = "local" /\ pc = "poll"
    /\ \E d \in Dur, s \in LocalStatuses :
        /\ polls' = polls + 1
        /\ late_polls' = IF now - start_time > timeout THEN late_polls + 1 ELSE late_polls
        /\ now' = now + d
        /\ term' = IF term = "none" /\ s \in LocalTerminal THEN s ELSE term
        /\ benign' = (benign /\ s \in LocalBenign)
        /\ outcome' = LocalPollOutcome(s)
        /\ pc' = IF LocalPollOutcome(s) = "none" THEN "sleep" ELSE "done"
    /\ UNCHANGED <<otherVars, supVars, config, start_time, last_health_check, submit_at, entered_at,
                   checked_at, submits, submit_resp, last_probe>>

\* handler.py:396: time.sleep(2).
wait_sleep ==
    /\ mode = "local" /\ pc = "sleep"
    /\ now' = now + LocalPollSleep
    /\ pc' = "check"
    /\ UNCHANGED <<otherVars, supVars, config, start_time, last_health_check, outcome, submit_at,
                   entered_at, checked_at, submits, submit_resp, polls, late_polls,
                   term, last_probe, benign>>

\* ------------------------------------------- remote queue (send-to-runpod)

\* send-to-runpod.py:502-505 with 251-297: main submits once and exits on None.
submit_job ==
    /\ mode = "remote" /\ pc = "submit"
    /\ \E d \in Dur, resp \in SubmitResps :
        /\ submit_at' = now
        /\ now' = now + d
        /\ submits' = submits + 1
        /\ submit_resp' = resp
        /\ IF RemoteSubmitAccepted(resp)
             THEN pc' = "enter" /\ outcome' = outcome /\ benign' = benign
             ELSE pc' = "done" /\ outcome' = "submit_error" /\ benign' = FALSE
    /\ UNCHANGED <<otherVars, supVars, config, start_time, last_health_check, entered_at, checked_at,
                   polls, late_polls, term, last_probe>>

\* send-to-runpod.py:508 with 313-322: entering poll_status.
poll_enter ==
    /\ mode = "remote" /\ pc = "enter"
    /\ start_time' = LoopStart(submit_at, now)
    /\ entered_at' = now
    /\ pc' = "check"
    /\ UNCHANGED <<otherVars, supVars, config, now, last_health_check, outcome, submit_at, checked_at,
                   submits, submit_resp, polls, late_polls, term, last_probe, benign>>

\* send-to-runpod.py:324-329: the timeout test at the head of the loop.
poll_check ==
    /\ mode = "remote" /\ pc = "check"
    /\ IF RemoteExpired(now - start_time, timeout)
         THEN pc' = "done" /\ outcome' = "timeout" /\ checked_at' = checked_at
         ELSE pc' = "poll" /\ outcome' = outcome /\ checked_at' = now
    /\ UNCHANGED <<otherVars, supVars, config, now, start_time, last_health_check, submit_at, entered_at,
                   submits, submit_resp, polls, late_polls, term, last_probe, benign>>

\* send-to-runpod.py:331-372: one poll of /status/{job_id}.
poll_request ==
    /\ mode = "remote" /\ pc = "poll"
    /\ \E d \in Dur, s \in RemoteStatuses :
        /\ polls' = polls + 1
        /\ late_polls' = IF now - start_time > timeout THEN late_polls + 1 ELSE late_polls
        /\ now' = now + d
        /\ term' = IF term = "none" /\ s \in RemoteTerminal THEN s ELSE term
        /\ benign' = (benign /\ s \in RemoteBenign)
        /\ outcome' = RemotePollOutcome(s)
        /\ pc' = IF RemotePollOutcome(s) = "none" THEN "sleep" ELSE "done"
    /\ UNCHANGED <<otherVars, supVars, config, start_time, last_health_check, submit_at, entered_at,
                   checked_at, submits, submit_resp, last_probe>>

\* send-to-runpod.py:357,361,369: time.sleep(poll_interval).
poll_sleep ==
    /\ mode = "remote" /\ pc = "sleep"
    /\ now' = now + poll_interval
    /\ pc' = "check"
    /\ UNCHANGED <<otherVars, supVars, config, start_time, last_health_check, outcome, submit_at,
                   entered_at, checked_at, submits, submit_resp, polls, late_polls,
                   term, last_probe, benign>>

JobNext ==
    \/ queue_prompt \/ wait_enter \/ wait_check \/ wait_health \/ wait_poll \/ wait_sleep
    \/ submit_job \/ poll_enter \/ poll_check \/ poll_request \/ poll_sleep

\* ------------------------------------------------ process supervisor

HandleAfterFailedStart_M(h) == h

\* handler.py:178 and 189  comfyui_process = None after a failed start.
HandleAfterFailedStart(h) == None

\* handler.py:138  if comfyui_process is not None and server_ready
AlreadyRunning(h, ready) == h # None /\ ready

\* handler.py:112  while time.time() - start_time < timeout
ReadinessWindowOpen(el, tmo) == el < tmo

EnsureProbeOk_M(p) == p # "noresp"

ReadinessProbeOk_M(p) == p # "noresp"

\* handler.py:118  if response.status_code == 200 (a RequestException is
\* swallowed at 121)
ReadinessProbeOk(p) == p = "ok200"

\* handler.py:221  if response.status_code != 200: raise
EnsureProbeOk(p) == p = "ok200"

\* handler.py:208  comfyui_process.poll() is not None
ProcessExited(st) == st # "alive"

CrashedState_M(h, ready) == [handle |-> None, ready |-> ready]

\* handler.py:211-212  comfyui_process = None; server_ready = False
CrashedState(h, ready) == [handle |-> None, ready |-> FALSE]

\* subprocess.Popen.kill(): an alive process dies; a dead one stays as it is.
Kill(pr, h) == IF pr[h] = "alive" THEN [pr EXCEPT ![h] = "killed"] ELSE pr

\* The slots Popen may use: free, or dead and no longer referred to.
FreeSlots == {p \in Pids : proc[p] # "alive" /\ comfyui_process # p}

SupInit ==
    /\ comfyui_process = None
    /\ server_ready = FALSE
    /\ health_check_timeout \in HealthTimeouts
    /\ proc = [p \in Pids |-> "free"]
    /\ init_done = FALSE
    /\ init_result = "none"
    /\ requests = 0
    /\ spc = [t \in Threads |-> "idle"]
    /\ call = [t \in Threads |-> "none"]
    /\ via = [t \in Threads |-> "none"]
    /\ elapsed = [t \in Threads |-> 0]
    /\ ret = [t \in Threads |-> "none"]
    /\ spawns = [t \in Threads |-> 0]
    /\ last_spawn = [t \in Threads |-> None]
    /\ got200 = [t \in Threads |-> FALSE]
    /\ entry_ready = [t \in Threads |-> FALSE]
    /\ spawn_failed = [t \in Threads |-> FALSE]
    /\ ok_since_spawn = FALSE
    /\ total_spawns = 0

\* A job that is not running, for the supervisor's specifications.
JobIdle ==
    /\ mode = "local" /\ now = 0 /\ timeout = 0 /\ poll_interval = 1
    /\ health_check_interval = 1 /\ pc = "done" /\ start_time = 0
    /\ last_health_check = 0 /\ outcome = "none" /\ submit_at = 0
    /\ entered_at = 0 /\ checked_at = 0 /\ submits = 0 /\ submit_resp = "none"
    /\ polls = 0 /\ late_polls = 0 /\ term = "none" /\ last_probe = "none"
    /\ benign = TRUE

\* A supervisor that is not running, for the job's specifications.
SupIdle ==
    /\ SupInit
    /\ health_check_timeout = 0

supConfig == <<health_check_timeout>>
callHist == <<spawns, last_spawn, got200, entry_ready, spawn_failed>>

Return_Fatal(t, r) ==
    /\ spc' = [spc EXCEPT ![t] = "idle"]
    /\ ret' = [ret EXCEPT ![t] = r]
    /\ elapsed' = [elapsed EXCEPT ![t] = 0]
    /\ init_done' = (init_done \/ (call[t] = "init" /\ r = "true"))
    /\ init_result' = IF call[t] = "init" THEN r ELSE init_result
    /\ UNCHANGED requests

Return_M(t, r) ==
    /\ spc' = [spc EXCEPT ![t] = IF r = "false" THEN "s_guard" ELSE "idle"]
    /\ ret' = [ret EXCEPT ![t] = IF r = "false" THEN @ ELSE r]
    /\ elapsed' = [elapsed EXCEPT ![t] = 0]
    /\ init_done' = (init_done \/ (call[t] = "init" /\ r # "false"))
    /\ init_result' = IF call[t] = "init" THEN r ELSE init_result
    /\ UNCHANGED requests

\* The call of thread t returns r.
Return(t, r) ==
    /\ spc' = [spc EXCEPT ![t] = "idle"]
    /\ ret' = [ret EXCEPT ![t] = r]
    /\ elapsed' = [elapsed EXCEPT ![t] = 0]
    /\ init_done' = (init_done \/ call[t] = "init")
    /\ init_result' = IF call[t] = "init" THEN r ELSE init_result
    /\ UNCHANGED requests

\* A new external call of thread t begins.
Begin(t, c, at) ==
    /\ spc' = [spc EXCEPT ![t] = at]
    /\ call' = [call EXCEPT ![t] = c]
    /\ via' = [via EXCEPT ![t] = "none"]
    /\ ret' = [ret EXCEPT ![t] = "none"]
    /\ spawns' = [spawns EXCEPT ![t] = 0]
    /\ last_spawn' = [last_spawn EXCEPT ![t] = None]
    /\ got200' = [got200 EXCEPT ![t] = FALSE]
    /\ entry_ready' = [entry_ready EXCEPT ![t] = (comfyui_process # None /\ server_ready)]
    /\ spawn_failed' = [spawn_failed EXCEPT ![t] = FALSE]

\* handler.py:556-584: at module load, before any request is served,
\* initialize_worker calls start_comfyui_server.
initialize_worker(t) ==
    /\ t = 1 /\ ~init_done /\ spc[t] = "idle" /\ call[t] = "none"
    /\ Begin(t, "init", "s_guard")
    /\ UNCHANGED <<otherVars, jobVars, supConfig, comfyui_process, server_ready, proc, init_done, init_result, requests,
                   elapsed, ok_since_spawn, total_spawns>>

\* handler.py:503: a request calls ensure_comfyui_running.
handler_ensure(t) ==
    /\ init_done /\ spc[t] = "idle"
    /\ Begin(t, "ensure", "e_none")
    /\ requests' = IF requests < MaxRequests THEN requests + 1 ELSE requests
    /\ UNCHANGED <<otherVars, jobVars, supConfig, comfyui_process, server_ready, proc, init_done, init_result,
                   elapsed, ok_since_spawn, total_spawns>>

\* handler.py:203-205: no handle, start.
ensure_check_none(t) ==
    /\ spc[t] = "e_none"
    /\ IF comfyui_process = None
         THEN /\ spc' = [spc EXCEPT ![t] = "s_guard"]
              /\ via' = [via EXCEPT ![t] = "stopped"]
         ELSE /\ spc' = [spc EXCEPT ![t] = "e_alive"]
              /\ via' = via
    /\ UNCHANGED <<otherVars, jobVars, supConfig, comfyui_process, server_ready, proc, init_done, init_result, requests,
                   call, elapsed, ret, callHist, ok_since_spawn, total_spawns>>

\* handler.py:208-213: the handle reports exit: clear it and the flag, start.
\* A handle another thread has cleared meanwhile makes .poll() raise.
ensure_check_alive(t) ==
    /\ spc[t] = "e_alive"
    /\ IF comfyui_process = None
         THEN /\ Return(t, "raised")
              /\ UNCHANGED <<comfyui_process, server_ready, via>>
         ELSE IF ProcessExited(proc[comfyui_process])
           THEN /\ comfyui_process' = CrashedState(comfyui_process, server_ready).handle
                /\ server_ready' = CrashedState(comfyui_process, server_ready).ready
                /\ spc' = [spc EXCEPT ![t] = "s_guard"]
                /\ via' = [via EXCEPT ![t] = "crashed"]
                /\ UNCHANGED <<ret, elapsed, init_done, init_result, requests>>
           ELSE /\ spc' = [spc EXCEPT ![t] = "e_probe"]
                /\ UNCHANGED <<comfyui_process, server_ready, via, ret, elapsed, init_done, init_result, requests>>
    /\ UNCHANGED <<otherVars, jobVars, supConfig, proc, call, callHist, ok_since_spawn, total_spawns>>

\* handler.py:215-230: the liveness probe; on failure kill, clear, start.
ensure_probe(t) ==
    /\ spc[t] = "e_probe"
    /\ \E p \in ProbeResults :
        /\ got200' = [got200 EXCEPT ![t] = @ \/ p = "ok200"]
        /\ IF EnsureProbeOk(p)
             THEN /\ Return(t, "true")
                  /\ ok_since_spawn' = TRUE
                  /\ UNCHANGED <<comfyui_process, server_ready, proc, via>>
             ELSE IF comfyui_process = None
               THEN /\ Return(t, "raised")
                    /\ UNCHANGED <<comfyui_process, server_ready, proc, via, ok_since_spawn>>
               ELSE /\ proc' = Kill(proc, comfyui_process)
                    /\ comfyui_process' = None
                    /\ server_ready' = FALSE
                    /\ spc' = [spc EXCEPT ![t] = "s_guard"]
                    /\ via' = [via EXCEPT ![t] = "unresponsive"]
                    /\ UNCHANGED <<ret, elapsed, init_done, init_result, requests,
                                   ok_since_spawn>>
    /\ UNCHANGED <<otherVars, jobVars, supConfig, call, spawns, last_spawn, entry_ready,
                   spawn_failed, total_spawns>>

\* handler.py:138-149: start_comfyui_server's guard.
start_guard(t) ==
    /\ spc[t] = "s_guard"
    /\ IF AlreadyRunning(comfyui_process, server_ready)
         THEN Return(t, "true")
         ELSE /\ spc' = [spc EXCEPT ![t] = "s_spawn"]
              /\ UNCHANGED <<ret, elapsed, init_done, init_result, requests>>
    /\ UNCHANGED <<otherVars, jobVars, supConfig, comfyui_process, server_ready, proc, call, via,
                   callHist, ok_since_spawn, total_spawns>>

\* handler.py:151-169: Popen spawns the worker and the handle refers to it.
start_spawn(t) ==
    /\ spc[t] = "s_spawn"
    /\ \E p \in FreeSlots :
        /\ proc' = [proc EXCEPT ![p] = "alive"]
        /\ comfyui_process' = p
        /\ last_spawn' = [last_spawn EXCEPT ![t] = p]
    /\ spawns' = [spawns EXCEPT ![t] = @ + 1]
    /\ ok_since_spawn' = FALSE
    /\ total_spawns' = 1
    /\ spc' = [spc EXCEPT ![t] = "s_wait"]
    /\ elapsed' = [elapsed EXCEPT ![t] = 0]
    /\ UNCHANGED <<otherVars, jobVars, supConfig, server_ready, init_done, init_result, requests, call, via, ret,
                   got200, entry_ready, spawn_failed>>

\* handler.py:153 with 184-191: Popen raises; the except clause kills whatever
\* the handle refers to, clears it and the flag, and returns False.
start_spawn_raises(t) ==
    /\ spc[t] = "s_spawn"
    /\ proc' = IF comfyui_process # None THEN Kill(proc, comfyui_process) ELSE proc
    /\ comfyui_process' = IF comfyui_process # None
                            THEN HandleAfterFailedStart(comfyui_process)
                            ELSE comfyui_process
    /\ server_ready' = FALSE
    /\ spawn_failed' = [spawn_failed EXCEPT ![t] = TRUE]
    /\ Return(t, "false")
    /\ UNCHANGED <<otherVars, jobVars, supConfig, call, via, spawns, last_spawn, got200, entry_ready,
                   ok_since_spawn, total_spawns>>

\* handler.py:112-124: one turn of wait_for_health_check's loop, a probe that
\* does not answer 200 followed by time.sleep(1).
health_probe_retry(t) ==
    /\ spc[t] = "s_wait"
    /\ ReadinessWindowOpen(elapsed[t], health_check_timeout)
    /\ \E d \in Dur, p \in ProbeResults :
        /\ ~ReadinessProbeOk(p)
        /\ elapsed' = [elapsed EXCEPT ![t] = @ + d + ReadinessSleep]
        /\ got200' = [got200 EXCEPT ![t] = @ \/ p = "ok200"]
        /\ ok_since_spawn' = (ok_since_spawn \/ p = "ok200")
    /\ UNCHANGED <<otherVars, jobVars, supConfig, comfyui_process, server_ready, proc, init_done, init_result, requests,
                   spc, call, via, ret, spawns, last_spawn, entry_ready, spawn_failed,
                   total_spawns>>

\* handler.py:118-120 with 172 and 181-182: a readiness probe answers 200
\* within the window; server_ready = True and start returns True.
health_probe_ok(t) ==
    /\ spc[t] = "s_wait"
    /\ ReadinessWindowOpen(elapsed[t], health_check_timeout)
    /\ \E p \in ProbeResults :
        /\ ReadinessProbeOk(p)
        /\ got200' = [got200 EXCEPT ![t] = @ \/ p = "ok200"]
        /\ ok_since_spawn' = (ok_since_spawn \/ p = "ok200")
    /\ server_ready' = TRUE
    /\ Return(t, "true")
    /\ UNCHANGED <<otherVars, jobVars, supConfig, comfyui_process, proc, call, via, spawns,
                   last_spawn, entry_ready, spawn_failed, total_spawns>>

\* handler.py:126-127 with 172-179: the window has elapsed; server_ready =
\* False, the process the handle refers to is killed, the handle cleared.
health_timeout(t) ==
    /\ spc[t] = "s_wait"
    /\ ~ReadinessWindowOpen(elapsed[t], health_check_timeout)
    /\ server_ready' = FALSE
    /\ proc' = IF comfyui_process # None THEN Kill(proc, comfyui_process) ELSE proc
    /\ comfyui_process' = IF comfyui_process # None
                            THEN HandleAfterFailedStart(comfyui_process)
                            ELSE comfyui_process
    /\ Return(t, "false")
    /\ UNCHANGED <<otherVars, jobVars, supConfig, call, via, callHist, ok_since_spawn, total_spawns>>

\* The environment: a running worker process exits on its own.
worker_exits ==
    /\ \E p \in Pids :
        /\ proc[p] = "alive"
        /\ proc' = [proc EXCEPT ![p] = "exited"]
    /\ UNCHANGED <<otherVars, jobVars, supConfig, comfyui_process, server_ready, init_done, init_result, requests, spc,
                   call, via, elapsed, ret, callHist, ok_since_spawn, total_spawns>>

SupStep(t) ==
    \/ initialize_worker(t) \/ handler_ensure(t)
    \/ ensure_check_none(t) \/ ensure_check_alive(t) \/ ensure_probe(t)
    \/ start_guard(t) \/ start_spawn(t) \/ start_spawn_raises(t)
    \/ health_probe_retry(t) \/ health_probe_ok(t) \/ health_timeout(t)

\* ------------------------------------------------ captured-output buffer

\* The reader threads; one per spawned process (handler.py:169).
Readers == {1, 2}
OneReader == {1}
Lines == 1..MaxLines

QueueFull_M(q) == Len(q) > MaxQueue

\* handler.py:39  Queue(maxsize=1000): put_nowait raises Full at capacity.
QueueFull(q) == Len(q) >= MaxQueue

\* handler.py:90  while len(logs) < max_lines
WantsMore(l) == Len(l) < RecentLines

BufInit ==
    /\ comfyui_output_queue = <<>>
    /\ captured = 0
    /\ rpc = [r \in Readers |-> "read"]
    /\ decoded_line = [r \in Readers |-> 0]
    /\ lpc = "idle"
    /\ logs = <<>>
    /\ snap = <<>>
    /\ lost = {}
    /\ lost_free = FALSE
    /\ dropped_nonfull = FALSE
    /\ reader = [r \in Readers |-> IF r = 1 THEN "live" ELSE "unstarted"]
    /\ backlog = [r \in Readers |-> 0]
    /\ put_by = <<>>
    /\ reported = {}
    /\ reported_twice = FALSE

\* handler.py:54: readline gives reader r a line while its process runs, and
\* after the process has died as long as lines are left in the pipe.
HasInput(r) == reader[r] = "live" \/ (reader[r] = "draining" /\ backlog[r] > 0)

\* handler.py:54-59: the reader gets a line from the worker's output and
\* calls put_nowait; Full takes it to the except clause at 60.
reader_put(r) ==
    /\ rpc[r] = "read" /\ captured < MaxLines
    /\ HasInput(r)
    /\ backlog' = IF reader[r] = "draining" THEN [backlog EXCEPT ![r] = @ - 1] ELSE backlog
    /\ captured' = captured + 1
    /\ IF QueueFull(comfyui_output_queue)
         THEN /\ rpc' = [rpc EXCEPT ![r] = "full"]
              /\ decoded_line' = [decoded_line EXCEPT ![r] = captured + 1]
              /\ UNCHANGED <<comfyui_output_queue, put_by>>
         ELSE /\ comfyui_output_queue' = Append(comfyui_output_queue, captured + 1)
              /\ put_by' = Append(put_by, r)
              /\ UNCHANGED <<rpc, decoded_line>>
    /\ UNCHANGED <<jobVars, supVars, nonBufVars, lpc, logs, snap, lost, lost_free,
                   dropped_nonfull, reader, reportVars>>

\* handler.py:63: get_nowait removes the oldest line; on an empty queue it
\* raises Empty, which the bare except at 65 swallows together with the line
\* in hand.
reader_drop(r) ==
    /\ rpc[r] = "full"
    /\ IF comfyui_output_queue # <<>>
         THEN /\ comfyui_output_queue' = Tail(comfyui_output_queue)
              /\ dropped_nonfull' = (dropped_nonfull \/ ~QueueFull(comfyui_output_queue))
              /\ rpc' = [rpc EXCEPT ![r] = "retry"]
              /\ UNCHANGED <<decoded_line, lost, lost_free>>
         ELSE /\ lost' = lost \cup {decoded_line[r]}
              /\ lost_free' = TRUE
              /\ rpc' = [rpc EXCEPT ![r] = "read"]
              /\ decoded_line' = [decoded_line EXCEPT ![r] = 0]
              /\ UNCHANGED <<comfyui_output_queue, dropped_nonfull>>
    /\ UNCHANGED <<jobVars, supVars, nonBufVars, captured, lpc, logs, snap, genVars,
                   reportVars>>

\* handler.py:64: the second put_nowait; Full is swallowed at 65 together
\* with the line in hand.
reader_retry(r) ==
    /\ rpc[r] = "retry"
    /\ IF QueueFull(comfyui_output_queue)
         THEN /\ lost' = lost \cup {decoded_line[r]}
              /\ UNCHANGED <<comfyui_output_queue, put_by>>
         ELSE /\ comfyui_output_queue' = Append(comfyui_output_queue, decoded_line[r])
              /\ put_by' = Append(put_by, r)
              /\ UNCHANGED lost
    /\ rpc' = [rpc EXCEPT ![r] = "read"]
    /\ decoded_line' = [decoded_line EXCEPT ![r] = 0]
    /\ UNCHANGED <<jobVars, supVars, nonBufVars, captured, lpc, logs, snap, lost_free,
                   dropped_nonfull, reader, backlog, reportVars>>

\* handler.py:54 with 74: readline returns b'' once the dead process's pipe is
\* empty; the loop and the thread end.
reader_eof(r) ==
    /\ rpc[r] = "read" /\ reader[r] = "draining" /\ backlog[r] = 0
    /\ reader' = [reader EXCEPT ![r] = "ended"]
    /\ UNCHANGED <<jobVars, supVars, nonBufVars, comfyui_output_queue, captured, rpc,
                   decoded_line, lpc, logs, snap, lost, lost_free, dropped_nonfull,
                   backlog, put_by, reportVars>>

\* handler.py:224-230 (or 208-213) with 153-169: ensure_comfyui_running kills
\* the worker, or finds it dead, and start_comfyui_server spawns a new one and
\* starts its reader thread; the old reader thread is neither stopped nor
\* joined, and what the old process had written is still in its pipe.
restart ==
    /\ reader[1] = "live" /\ reader[2] = "unstarted"
    /\ \E k \in 0..MaxBacklog :
        backlog' = [backlog EXCEPT ![1] = k]
    /\ reader' = [reader EXCEPT ![1] = "draining", ![2] = "live"]
    /\ put_by' = Append(put_by, 0)
    /\ UNCHANGED <<jobVars, supVars, nonBufVars, comfyui_output_queue, captured, rpc,
                   decoded_line, lpc, logs, snap, lost, lost_free, dropped_nonfull,
                   reportVars>>

\* handler.py:466 with 88: create_error_response calls
\* get_recent_comfyui_logs(20); logs = [].
logs_begin ==
    /\ lpc \in {"idle", "done"}
    /\ lpc' = "get"
    /\ logs' = <<>>
    /\ snap' = comfyui_output_queue
    /\ UNCHANGED <<jobVars, supVars, nonBufVars, comfyui_output_queue, captured, rpc,
                   decoded_line, lost, lost_free, dropped_nonfull, genVars, reportVars>>

Range(seq) == {seq[i] : i \in 1..Len(seq)}

AfterGet_M(q) == q

\* handler.py:91  Queue.get_nowait removes the line it returns.
AfterGet(q) == Tail(q)

\* handler.py:90-94: one turn of the loop: get_nowait takes the line at the
\* head of the queue; the loop ends when max_lines are collected or Empty is
\* raised.
logs_get ==
    /\ lpc = "get"
    /\ IF WantsMore(logs) /\ comfyui_output_queue # <<>>
         THEN /\ logs' = Append(logs, Head(comfyui_output_queue))
              /\ comfyui_output_queue' = AfterGet(comfyui_output_queue)
              /\ UNCHANGED <<lpc, reportVars>>
         ELSE /\ lpc' = "done"
              /\ reported' = reported \cup Range(logs)
              /\ reported_twice' =
                     (\/ reported_twice
                      \/ Range(logs) \cap reported # {}
                      \/ Cardinality(Range(logs)) < Len(logs))
              /\ UNCHANGED <<logs, comfyui_output_queue>>
    /\ UNCHANGED <<jobVars, supVars, nonBufVars, captured, rpc, decoded_line, snap,
                   lost, lost_free, dropped_nonfull, genVars>>

BufNext ==
    \/ logs_begin \/ logs_get
    \/ \E r \in OneReader : reader_put(r) \/ reader_drop(r) \/ reader_retry(r)

\* ------------------------------------------------------- request handler

\* The node types validate_workflow looks at, and one it does not.
ClassTypes == {"CheckpointLoaderSimple", "LoraLoader", "LoadImage", "KSampler"}
\* The file a node names: none (the input is absent or empty), one that
\* exists on disk, one that does not.
FileStates == {"unnamed", "present", "missing"}
Nodes == [class_type : ClassTypes, file : FileStates]
\* A workflow in iteration order; the empty one stands for a missing or
\* empty 'workflow' input.
Workflows == UNION {[1..n -> Nodes] : n \in 0..MaxWorkflowNodes}
\* The events: one that is not a mapping with a mapping under 'input', and
\* the well-formed ones.
Events ==
    {[wellformed |-> FALSE, workflow |-> <<>>, reference_images |-> FALSE,
      return_base64 |-> FALSE]}
    \cup [wellformed : {TRUE}, workflow : Workflows, reference_images : BOOLEAN,
          return_base64 : BOOLEAN]

\* handler.py:288-309: the error entries of one node; each of the three
\* tests is made, each appends at most one entry.
NodeErrors(node, id) ==
    (IF node.class_type = "CheckpointLoaderSimple"
          /\ node.file # "unnamed" /\ node.file = "missing"
       THEN <<[node |-> id, what |-> "Checkpoint not found"]>> ELSE <<>>)
    \o (IF node.class_type = "LoraLoader"
          /\ node.file # "unnamed" /\ node.file = "missing"
       THEN <<[node |-> id, what |-> "LoRA not found"]>> ELSE <<>>)
    \o (IF node.class_type = "LoadImage"
          /\ node.file # "unnamed" /\ node.file = "missing"
       THEN <<[node |-> id, what |-> "Input image not found"]>> ELSE <<>>)

\* handler.py:283-309: the loop over workflow.items(), from node i on.
RECURSIVE ValidateFrom(_, _)
ValidateFrom(wf, i) ==
    IF i > Len(wf) THEN <<>> ELSE NodeErrors(wf[i], i) \o ValidateFrom(wf, i + 1)

validate_workflow_M(wf) ==
    IF ValidateFrom(wf, 1) = <<>> THEN <<>> ELSE <<Head(ValidateFrom(wf, 1))>>

\* handler.py:271-317  validate_workflow returns the list of errors.
validate_workflow(wf) == ValidateFrom(wf, 1)

InTry_M(step) == step # "collect"

\* handler.py:488-553: every step of handler is inside the try block whose
\* except clause catches Exception.
InTry(step) == TRUE

\* handler.py:448-476: the response create_error_response builds; traceback
\* only with an exception, diagnostic_info only when given and non-empty,
\* system_state always.
ErrorResponse(msg, exc, diag) ==
    [status |-> "error", error |-> msg, traceback |-> exc,
     diagnostic_info |-> diag, system_state |-> "present", images |-> "absent"]

\* handler.py:543-548: the success response.
SuccessResponse ==
    [status |-> "success", error |-> "absent", traceback |-> FALSE,
     diagnostic_info |-> <<>>, system_state |-> "absent", images |-> "present"]

NoResponse ==
    [status |-> "none", error |-> "absent", traceback |-> FALSE,
     diagnostic_info |-> <<>>, system_state |-> "absent", images |-> "absent"]

NoErrArgs == [msg |-> "absent", exc |-> FALSE, diag |-> <<>>]

HdlInit ==
    /\ event \in Events
    /\ hpc = "input"
    /\ validation_errors = <<>>
    /\ err_args = NoErrArgs
    /\ response = NoResponse
    /\ failed_step = "none"
    /\ performed = <<>>

\* No request in the handler, for the other specifications.
HdlIdle ==
    /\ event = [wellformed |-> FALSE, workflow |-> <<>>, reference_images |-> FALSE,
                return_base64 |-> FALSE]
    /\ hpc = "off"
    /\ validation_errors = <<>>
    /\ err_args = NoErrArgs
    /\ response = NoResponse
    /\ failed_step = "none"
    /\ performed = <<>>

\* The step goes on to the next one.
Proceed(next) ==
    /\ hpc' = next
    /\ performed' = Append(performed, [step |-> hpc, result |-> "ok"])
    /\ UNCHANGED <<err_args, failed_step>>

\* The step raises an exception.
Raise(step) ==
    /\ hpc' = IF InTry(step) THEN "except" ELSE "escaped"
    /\ failed_step' = step
    /\ performed' = Append(performed, [step |-> step, result |-> "raised"])
    /\ UNCHANGED err_args

Fail_M(step, msg, diag) ==
    /\ hpc' = "queue"
    /\ failed_step' = step
    /\ performed' = Append(performed, [step |-> step, result |-> "returned error"])
    /\ err_args' = [msg |-> msg, exc |-> FALSE, diag |-> diag]

\* The step ends the request with return create_error_response(msg, ...).
Fail(step, msg, diag) ==
    /\ hpc' = "error_response"
    /\ failed_step' = step
    /\ performed' = Append(performed, [step |-> step, result |-> "returned error"])
    /\ err_args' = [msg |-> msg, exc |-> FALSE, diag |-> diag]

MissingWorkflow_M(wf) == FALSE

\* handler.py:498  if not workflow: None and the empty mapping alike.
MissingWorkflow(wf) == wf = <<>>

\* handler.py:492-499: read the input; an event or input that is not a
\* mapping raises; a missing or empty workflow is an error.
h_input ==
    /\ hpc = "input"
    /\ IF ~event.wellformed THEN Raise("input")
       ELSE IF MissingWorkflow(event.workflow) THEN Fail("input", "Missing 'workflow' in input", <<>>)
       ELSE Proceed("ensure")
    /\ UNCHANGED <<jobVars, supVars, nonHdlVars, event, validation_errors, response>>

\* The supervisor's variables a whole call of ensure_comfyui_running leaves
\* as they are.
ensureFrame ==
    <<health_check_timeout, init_done, init_result, requests, spc, call, via, elapsed, ret, spawns, last_spawn,
      got200, entry_ready, spawn_failed, ok_since_spawn>>

\* handler.py:502-504: ensure_comfyui_running returns True or False, or
\* raises. The whole call (194-230 with 130-191): True leaves a live, probed
\* worker as it is or has started one (169-182); False has cleared the handle
\* and the flag after a start that failed (172-179, 184-191); os.makedirs
\* (148-149) raises before anything is changed.
h_ensure ==
    /\ hpc = "ensure"
    /\ \E r \in {"true", "false", "raised"} :
        CASE r = "true"   ->
               /\ Proceed("diag")
               /\ \/ /\ AlreadyRunning(comfyui_process, server_ready)
                     /\ UNCHANGED <<comfyui_process, server_ready, proc, total_spawns>>
                  \/ \E p \in Pids :
                       /\ comfyui_process' = p
                       /\ proc' = [proc EXCEPT ![p] = "alive"]
                       /\ server_ready' = TRUE
                       /\ total_spawns' = 1
          [] r = "false"  ->
               /\ Fail("ensure", "Failed to start ComfyUI server", <<>>)
               /\ comfyui_process' = HandleAfterFailedStart(comfyui_process)
               /\ server_ready' = FALSE
               /\ \/ UNCHANGED <<proc, total_spawns>>
                  \/ \E p \in Pids :
                       /\ proc' = [proc EXCEPT ![p] = "killed"]
                       /\ total_spawns' = 1
          [] r = "raised" ->
               /\ Raise("ensure")
               /\ UNCHANGED <<comfyui_process, server_ready, proc, total_spawns>>
    /\ UNCHANGED <<jobVars, ensureFrame, nonHdlVars, event, validation_errors, response>>

\* handler.py:507: log_diagnostic_info (232-268) lists directories; that may raise.
h_diag ==
    /\ hpc = "diag"
    /\ \/ Proceed("refs")
       \/ Raise("diag")
    /\ UNCHANGED <<jobVars, supVars, nonHdlVars, event, validation_errors, response>>

\* handler.py:510-519: the reference images, if any, are decoded and written.
h_refs ==
    /\ hpc = "refs"
    /\ \/ Proceed("validate")
       \/ event.reference_images /\ Raise("refs")
    /\ UNCHANGED <<jobVars, supVars, nonHdlVars, event, validation_errors, response>>

\* handler.py:522-527: validate; a non-empty list is returned as
\* diagnostic_info of an error response.
h_validate ==
    /\ hpc = "validate"
    /\ validation_errors' = validate_workflow(event.workflow)
    /\ IF validation_errors' # <<>>
         THEN Fail("validate", "Workflow validation failed", validation_errors')
         ELSE Proceed("queue")
    /\ UNCHANGED <<jobVars, supVars, nonHdlVars, event, response>>

\* handler.py:530: queue_prompt returns the prompt id or raises (323-342).
h_queue ==
    /\ hpc = "queue"
    /\ \/ Proceed("wait")
       \/ Raise("queue")
    /\ UNCHANGED <<jobVars, supVars, nonHdlVars, event, validation_errors, response>>

\* handler.py:533: wait_for_completion returns the history or raises
\* (unresponsive 369, failed 391, timeout 398).
h_wait ==
    /\ hpc = "wait"
    /\ \/ Proceed("collect")
       \/ Raise("wait")
    /\ UNCHANGED <<jobVars, supVars, nonHdlVars, event, validation_errors, response>>

\* handler.py:536: get_output_images; reading an artifact file (422) may
\* raise, and is done only with return_base64.
h_collect ==
    /\ hpc = "collect"
    /\ \/ Proceed("cleanup")
       \/ event.return_base64 /\ Raise("collect")
    /\ UNCHANGED <<jobVars, supVars, nonHdlVars, event, validation_errors, response>>

\* handler.py:539: cleanup_outputs catches every exception itself (utils.py:198-229).
h_cleanup ==
    /\ hpc = "cleanup"
    /\ Proceed("success")
    /\ UNCHANGED <<jobVars, supVars, nonHdlVars, event, validation_errors, response>>

\* handler.py:542-548: return the success response.
h_success ==
    /\ hpc = "success"
    /\ response' = SuccessResponse
    /\ hpc' = "returned"
    /\ performed' = Append(performed, [step |-> "success", result |-> "ok"])
    /\ UNCHANGED <<jobVars, supVars, nonHdlVars, event, validation_errors, err_args,
                   failed_step>>

\* handler.py:550-553: except Exception as e: return
\* create_error_response(str(e), exception=e).
h_except ==
    /\ hpc = "except"
    /\ err_args' = [msg |-> "str(e)", exc |-> TRUE, diag |-> <<>>]
    /\ hpc' = "error_response"
    /\ UNCHANGED <<jobVars, supVars, nonHdlVars, event, validation_errors, response,
                   failed_step, performed>>

\* handler.py:438-476: create_error_response builds the response; its log
\* read and its probe swallow every exception.
create_error_response ==
    /\ hpc = "error_response"
    /\ response' = ErrorResponse(err_args.msg, err_args.exc, err_args.diag)
    /\ hpc' = "returned"
    /\ UNCHANGED <<jobVars, supVars, nonHdlVars, event, validation_errors, err_args,
                   failed_step, performed>>

HdlNext ==
    \/ h_input \/ h_ensure \/ h_diag \/ h_refs \/ h_validate \/ h_queue \/ h_wait
    \/ h_collect \/ h_cleanup \/ h_success \/ h_except \/ create_error_response

\* --------------------------------------------------- dependency resolver

NodeIds == 1..MaxNodes
\* A node record: the ids its inputs refer to (the inputs that are lists of
\* at least two elements, test_workflow_trimming.py:22-23); an id need not be
\* a node of the graph.
NodeRecords == [inputs : SUBSET NodeIds]
\* The graphs: nodes 1..n for any n within the bound, any references of a
\* node to ids other than its own; cycles through several nodes and
\* references to ids above n (no node of the graph) are included.
Graphs ==
    UNION {{g \in [1..n -> NodeRecords] : \A k \in 1..n : k \notin g[k].inputs} :
           n \in 0..MaxNodes}

\* test_workflow_trimming.py:8-24  visit_node, with the set `dependencies` it
\* updates passed in and returned; VisitInputs is its loop at 20-24.
RECURSIVE visit_node(_, _, _)
RECURSIVE VisitInputs(_, _, _)
visit_node(wf, node_id, dependencies) ==
    IF node_id \in dependencies THEN dependencies
    ELSE IF node_id \notin DOMAIN wf THEN dependencies
    ELSE VisitInputs(wf, wf[node_id].inputs, dependencies \cup {node_id})

VisitInputs(wf, refs, dependencies) ==
    IF refs = {} THEN dependencies
    ELSE LET r == CHOOSE x \in refs : \A y \in refs : x <= y
         IN  VisitInputs(wf, refs \ {r}, visit_node(wf, r, dependencies))

get_node_dependencies_Direct(wf, target) ==
    IF target \in DOMAIN wf THEN {target} \cup (wf[target].inputs \cap DOMAIN wf) ELSE {}

get_node_dependencies_NoSelf(wf, target) == visit_node(wf, target, {}) \ {target}

\* test_workflow_trimming.py:4-27
get_node_dependencies(wf, target) == visit_node(wf, target, {})

\* test_workflow_trimming.py:33-36  the union over the targets.
AllRequiredNodes(wf, targets) ==
    UNION {get_node_dependencies(wf, t) : t \in targets}

trim_workflow_TargetsOnly(wf, targets) ==
    [n \in targets \cap DOMAIN wf |-> wf[n]]

trim_workflow_Strip(wf, targets) ==
    [n \in AllRequiredNodes(wf, targets) |-> [inputs |-> {}]]

\* test_workflow_trimming.py:30-43
trim_workflow(wf, targets) ==
    [n \in AllRequiredNodes(wf, targets) |-> wf[n]]

GraphInit ==
    /\ workflow \in Graphs
    /\ target_node_ids = {}
    /\ gpc = "input"
    /\ trimmed = <<>>
    /\ reclosed = {}
    /\ retrimmed = <<>>

\* No graph being resolved, for the other specifications.
GraphIdle ==
    /\ workflow = <<>>
    /\ target_node_ids = {}
    /\ gpc = "off"
    /\ trimmed = <<>>
    /\ reclosed = {}
    /\ retrimmed = <<>>

\* trim_workflow(workflow, targets) is called with any set of target ids.
trim ==
    /\ gpc = "input"
    /\ \E targets \in SUBSET NodeIds :
        /\ target_node_ids' = targets
        /\ trimmed' = trim_workflow(workflow, targets)
    /\ gpc' = "trimmed"
    /\ UNCHANGED <<jobVars, supVars, nonGraphVars, workflow, reclosed, retrimmed>>

\* The resolver is applied twice: trim_workflow(trim_workflow(workflow,
\* targets), targets), and the closure in workflow of the closure.
trim_twice ==
    /\ gpc = "input"
    /\ \E targets \in SUBSET NodeIds :
        /\ target_node_ids' = targets
        /\ trimmed' = trim_workflow(workflow, targets)
        /\ retrimmed' = trim_workflow(trimmed', targets)
        /\ reclosed' = AllRequiredNodes(workflow, DOMAIN trimmed')
    /\ gpc' = "twice"
    /\ UNCHANGED <<jobVars, supVars, nonGraphVars, workflow>>

GraphNext == trim
RetrimNext == trim_twice

\* ------------------------------------------------------ depth computation

Max_M(a, b) == b

\* __init__.py:59  max(max_input_depth, input_depth)
Max(a, b) == IF a >= b THEN a ELSE b

NodeDepth_M(m) == m

\* __init__.py:62  depths[node_id] = max_input_depth + 1
NodeDepth(m) == m + 1

MissingDepth_M == NodeDepth(0)

\* __init__.py:48-49  if not node: return 0
MissingDepth == 0

\* __init__.py:44  if node_id in depths
Memoized(n, d) == n \in DOMAIN d

DepthsOnEntry_M(d, n) == (n :> 0) @@ d

\* __init__.py:47-59: depths as get_depth leaves it between its entry and the
\* visit of its inputs; nothing is recorded for the node before line 62.
DepthsOnEntry(d, n) == d

DepthInit ==
    /\ depths = <<>>
    /\ keys_left = DOMAIN workflow
    /\ dstack = <<>>
    /\ dpc = "loop"
    /\ computed = [n \in NodeIds |-> 0]
    /\ dsteps = 0

\* No depth computation, for the other specifications.
DepthIdle ==
    /\ depths = <<>>
    /\ keys_left = {}
    /\ dstack = <<>>
    /\ dpc = "off"
    /\ computed = [n \in NodeIds |-> 0]
    /\ dsteps = 0

\* The frame of a get_depth call that visits the inputs of node n.
Frame(n) == [node |-> n, refs |-> workflow[n].inputs, max_input_depth |-> 0]

\* The stack st with the value v returned to its innermost call (line 58-59).
Returned_to(st, v) ==
    IF st = <<>> THEN st
    ELSE [st EXCEPT ![Len(st)].max_input_depth = Max(@, v)]

\* __init__.py:43-53: get_depth(n) is called with the stack st: it returns
\* the memoized depth or 0 at once, or it starts on the node's inputs; a call
\* beyond the interpreter's recursion limit raises RecursionError.
get_depth_call(n, st) ==
    IF Memoized(n, depths)
      THEN /\ dstack' = Returned_to(st, depths[n])
           /\ UNCHANGED <<depths, dpc>>
    ELSE IF n \notin DOMAIN workflow
      THEN /\ dstack' = Returned_to(st, MissingDepth)
           /\ UNCHANGED <<depths, dpc>>
    ELSE IF Len(st) >= RecursionLimit
      THEN /\ dpc' = "raised"
           /\ UNCHANGED <<depths, dstack>>
    ELSE /\ dstack' = Append(st, Frame(n))
         /\ depths' = DepthsOnEntry(depths, n)
         /\ UNCHANGED dpc

\* __init__.py:66-67: the loop over workflow.keys() calls get_depth on the
\* next key, in whatever order the mapping iterates.
depth_next_key ==
    /\ dpc = "loop" /\ dstack = <<>>
    /\ \E k \in keys_left :
        /\ keys_left' = keys_left \ {k}
        /\ get_depth_call(k, dstack)
    /\ dsteps' = dsteps + 1
    /\ UNCHANGED <<jobVars, supVars, nonDepthVars, computed>>

\* __init__.py:54-59: the innermost call takes its next input reference, in
\* whatever order the inputs iterate, and calls get_depth on it.
depth_visit_input ==
    /\ dpc = "loop" /\ dstack # <<>>
    /\ \E r \in dstack[Len(dstack)].refs :
        get_depth_call(r, [dstack EXCEPT ![Len(dstack)].refs = @ \ {r}])
    /\ dsteps' = dsteps + 1
    /\ UNCHANGED <<jobVars, supVars, nonDepthVars, keys_left, computed>>

\* __init__.py:62-63: the innermost call has visited all its inputs: it
\* records the node's depth and returns it to its caller.
depth_return ==
    /\ dpc = "loop" /\ dstack # <<>>
    /\ dstack[Len(dstack)].refs = {}
    /\ LET top == dstack[Len(dstack)]
           v == NodeDepth(top.max_input_depth)
       IN  /\ depths' = [x \in DOMAIN depths \cup {top.node} |->
                            IF x = top.node THEN v ELSE depths[x]]
           /\ computed' = [computed EXCEPT ![top.node] = @ + 1]
           /\ dstack' = Returned_to(SubSeq(dstack, 1, Len(dstack) - 1), v)
    /\ dsteps' = dsteps + 1
    /\ UNCHANGED <<jobVars, supVars, nonDepthVars, keys_left, dpc>>

\* __init__.py:69: the loop has ended; return depths.
depth_finish ==
    /\ dpc = "loop" /\ dstack = <<>> /\ keys_left = {}
    /\ dpc' = "done"
    /\ dsteps' = dsteps + 1
    /\ UNCHANGED <<jobVars, supVars, nonDepthVars, depths, keys_left, dstack, computed>>

DepthNext == depth_next_key \/ depth_visit_input \/ depth_return \/ depth_finish

\* ----------------------------------------------- trim_workflow, step by step

Visited_M(n, deps) == FALSE

\* test_workflow_trimming.py:9  if node_id in dependencies
Visited(n, deps) == n \in deps

\* test_workflow_trimming.py:6  dependencies = set(), in every call of
\* get_node_dependencies, whatever the previous call left.
FreshDependencies(deps) == {}

WalkInit ==
    /\ targets_left = target_node_ids
    /\ required_nodes = {}
    /\ wstack = <<>>
    /\ all_required_nodes = {}
    /\ wtrimmed = <<>>
    /\ wpc = "loop"
    /\ expanded = [n \in NodeIds |-> 0]
    /\ wsteps = 0

\* No trim running step by step, for the other specifications.
WalkIdle ==
    /\ targets_left = {}
    /\ required_nodes = {}
    /\ wstack = <<>>
    /\ all_required_nodes = {}
    /\ wtrimmed = <<>>
    /\ wpc = "off"
    /\ expanded = [n \in NodeIds |-> 0]
    /\ wsteps = 0

\* test_workflow_trimming.py:8-20: visit_node(n) is called with the stack st
\* and the set deps: it returns at once for a visited or missing id, or adds
\* the node and starts on its inputs; a call beyond the interpreter's
\* recursion limit raises RecursionError.
visit_node_call(n, st, deps) ==
    IF Visited(n, deps) \/ n \notin DOMAIN workflow
      THEN /\ wstack' = st
           /\ required_nodes' = deps
           /\ UNCHANGED <<wpc, expanded>>
    ELSE IF Len(st) >= RecursionLimit
      THEN /\ wpc' = "raised"
           /\ wstack' = st
           /\ required_nodes' = deps
           /\ UNCHANGED expanded
    ELSE /\ wstack' = Append(st, [node |-> n, refs |-> workflow[n].inputs])
         /\ required_nodes' = deps \cup {n}
         /\ expanded' = [expanded EXCEPT ![n] = @ + 1]
         /\ UNCHANGED wpc

\* test_workflow_trimming.py:34-35, 6, 26: the loop over the targets calls
\* get_node_dependencies on the next one, in whatever order they iterate.
walk_next_target ==
    /\ wpc = "loop" /\ wstack = <<>>
    /\ \E t \in targets_left :
        /\ targets_left' = targets_left \ {t}
        /\ visit_node_call(t, wstack, FreshDependencies(required_nodes))
    /\ all_required_nodes' = all_required_nodes \cup required_nodes
    /\ wsteps' = wsteps + 1
    /\ UNCHANGED <<jobVars, supVars, nonWalkVars, wtrimmed>>

\* test_workflow_trimming.py:20-24: the innermost call takes its next input
\* reference, in whatever order the inputs iterate, and visits it.
walk_visit_input ==
    /\ wpc = "loop" /\ wstack # <<>>
    /\ \E r \in wstack[Len(wstack)].refs :
        visit_node_call(r, [wstack EXCEPT ![Len(wstack)].refs = @ \ {r}], required_nodes)
    /\ wsteps' = wsteps + 1
    /\ UNCHANGED <<jobVars, supVars, nonWalkVars, targets_left, all_required_nodes,
                   wtrimmed>>

\* test_workflow_trimming.py:24 (end of the loop at 20): the innermost call
\* has visited all its inputs and returns.
walk_return ==
    /\ wpc = "loop" /\ wstack # <<>>
    /\ wstack[Len(wstack)].refs = {}
    /\ wstack' = SubSeq(wstack, 1, Len(wstack) - 1)
    /\ wsteps' = wsteps + 1
    /\ UNCHANGED <<jobVars, supVars, nonWalkVars, targets_left, required_nodes,
                   all_required_nodes, wtrimmed, wpc, expanded>>

\* test_workflow_trimming.py:36-43: the last target's set is merged, the
\* trimmed graph is built from all_required_nodes and returned.
walk_build ==
    /\ wpc = "loop" /\ wstack = <<>> /\ targets_left = {}
    /\ all_required_nodes' = all_required_nodes \cup required_nodes
    /\ wtrimmed' = [n \in all_required_nodes' |-> workflow[n]]
    /\ wpc' = "done"
    /\ wsteps' = wsteps + 1
    /\ UNCHANGED <<jobVars, supVars, nonWalkVars, targets_left, required_nodes, wstack,
                   expanded>>

WalkNext == walk_next_target \/ walk_visit_input \/ walk_return \/ walk_build

\* ------------------------------------------------------ the worker's settings

\* config.py:144  if self.handler.execution_timeout < 30
MinExecutionTimeout == 30
\* config.py:147  if self.handler.health_check_timeout < 5
MinHealthCheckTimeout == 5
\* config.py:86  os.getenv("EXECUTION_TIMEOUT", "300")
DefaultExecutionTimeout == 300
\* config.py:88  os.getenv("HEALTH_CHECK_TIMEOUT", "30")
DefaultHealthCheckTimeout == 30

\* The values a setting is given: unset (<<>>), or a whole number around the
\* minimum (<<v>>).
Around(min) == {<<>>} \cup {<<v>> : v \in (min - MaxOff)..(min + MaxOff)}

Environments ==
    [EXECUTION_TIMEOUT : Around(MinExecutionTimeout),
     HEALTH_CHECK_TIMEOUT : Around(MinHealthCheckTimeout),
     RUNPOD_API_KEY : {"unset", "set"},
     RUNPOD_ENDPOINT_ID : {"unset", "set"}]

\* int(os.getenv(name, default))
GetenvInt(value, default) == IF value = <<>> THEN default ELSE value[1]

\* config.py:130-150  validate: the list of error messages, nothing else.
validate(cfg, e) ==
    {m \in {"RUNPOD_API_KEY not set", "RUNPOD_ENDPOINT_ID not set",
            "EXECUTION_TIMEOUT must be at least 30 seconds",
            "HEALTH_CHECK_TIMEOUT must be at least 5 seconds"} :
        \/ m = "RUNPOD_API_KEY not set" /\ e.RUNPOD_API_KEY = "unset"
        \/ m = "RUNPOD_ENDPOINT_ID not set" /\ e.RUNPOD_ENDPOINT_ID = "unset"
        \/ /\ m = "EXECUTION_TIMEOUT must be at least 30 seconds"
           /\ cfg.execution_timeout < MinExecutionTimeout
        \/ /\ m = "HEALTH_CHECK_TIMEOUT must be at least 5 seconds"
           /\ cfg.health_check_timeout < MinHealthCheckTimeout}

\* handler.py:564-566: what initialize_worker leaves of the settings after it
\* has validated them: it logs the errors and changes nothing.
Validated(cfg, errors) == cfg

NoConfig == [execution_timeout |-> 0, health_check_timeout |-> 0]

CfgInit ==
    /\ env \in Environments
    /\ handler_config = NoConfig
    /\ cfg_errors = {}
    /\ cpc = "import"
    /\ health_timeout_used = 0
    /\ completion_timeout_used = 0

\* The settings not being read, for the other specifications.
CfgIdle ==
    /\ env = [EXECUTION_TIMEOUT |-> <<>>, HEALTH_CHECK_TIMEOUT |-> <<>>,
              RUNPOD_API_KEY |-> "unset", RUNPOD_ENDPOINT_ID |-> "unset"]
    /\ handler_config = NoConfig
    /\ cfg_errors = {}
    /\ cpc = "off"
    /\ health_timeout_used = 0
    /\ completion_timeout_used = 0

\* config.py:86-88, 155: the module is imported: config = ProjectDefaults.from_env().
from_env ==
    /\ cpc = "import"
    /\ handler_config' =
        [execution_timeout |-> GetenvInt(env.EXECUTION_TIMEOUT, DefaultExecutionTimeout),
         health_check_timeout |->
             GetenvInt(env.HEALTH_CHECK_TIMEOUT, DefaultHealthCheckTimeout)]
    /\ cpc' = "init"
    /\ UNCHANGED <<jobVars, supVars, nonCfgVars, env, cfg_errors, health_timeout_used,
                   completion_timeout_used>>

\* handler.py:563-566: initialize_worker validates the configuration and logs
\* the errors as a warning.
cfg_validate ==
    /\ cpc = "init"
    /\ cfg_errors' = validate(handler_config, env)
    /\ handler_config' = Validated(handler_config, cfg_errors')
    /\ cpc' = "start"
    /\ UNCHANGED <<jobVars, supVars, nonCfgVars, env, health_timeout_used,
                   completion_timeout_used>>

\* handler.py:570, 172, 106-107: start_comfyui_server calls
\* wait_for_health_check(), which binds its timeout from the configuration.
cfg_wait_for_health_check ==
    /\ cpc = "start"
    /\ health_timeout_used' = handler_config.health_check_timeout
    /\ cpc' = "serve"
    /\ UNCHANGED <<jobVars, supVars, nonCfgVars, env, handler_config, cfg_errors,
                   completion_timeout_used>>

\* handler.py:533, 355-356: a request reaches wait_for_completion(prompt_id),
\* which binds its timeout from the configuration.
cfg_wait_for_completion ==
    /\ cpc = "serve"
    /\ completion_timeout_used' = handler_config.execution_timeout
    /\ cpc' = "done"
    /\ UNCHANGED <<jobVars, supVars, nonCfgVars, env, handler_config, cfg_errors,
                   health_timeout_used>>

CfgNext ==
    from_env \/ cfg_validate \/ cfg_wait_for_health_check \/ cfg_wait_for_completion

\* ------------------------------------------------------- get_output_images

\* Number of output nodes a history holds at most.
OutputNodeCount == 2

\* An image entry of a node's output: its filename, "" when it has none.
ImageEntries == [filename : {"", "a.png", "b.png"}]

\* A node's output: with or without the key "images".
NodeOutputs ==
    {[has_images |-> FALSE, images |-> <<>>]} \cup
    UNION {[has_images : {TRUE}, images : [1..n -> ImageEntries]] : n \in 0..MaxImages}

Histories == UNION {[1..n -> NodeOutputs] : n \in 0..OutputNodeCount}

\* handler.py:419  os.path.join(COMFYUI_OUTPUT, filename)
Filepath(filename) == <<"COMFYUI_OUTPUT", filename>>

\* The bytes of the file at a path.
FileBytes(filepath) == <<"bytes of", filepath>>

\* handler.py:423  base64.b64encode(...).decode("utf-8")
Base64(bytes) == <<"base64 of", bytes>>

Artifact_M(filename, b64) ==
    [filename |-> filename, data |-> Base64(FileBytes(Filepath(filename))),
     path |-> Filepath(filename)]

\* handler.py:421-432: the artifact appended for a filename.
Artifact(filename, b64) ==
    IF b64 THEN [filename |-> filename, data |-> Base64(FileBytes(Filepath(filename)))]
    ELSE [filename |-> filename, path |-> Filepath(filename)]

NoImgResponse == [status |-> "none"]

ImgInit ==
    /\ prompt_history \in Histories
    /\ return_base64 \in BOOLEAN
    /\ ipc = "collect"
    /\ node_at = 1
    /\ img_at = 1
    /\ images = <<>>
    /\ img_response = NoImgResponse
    /\ taken = <<>>

\* No artifacts being collected, for the other specifications.
ImgIdle ==
    /\ prompt_history = <<>>
    /\ return_base64 = FALSE
    /\ ipc = "off"
    /\ node_at = 1
    /\ img_at = 1
    /\ images = <<>>
    /\ img_response = NoImgResponse
    /\ taken = <<>>

\* handler.py:416-432: the next image entry of the current node: an entry
\* without a filename is passed over; with return_base64 the file is read,
\* which may raise; otherwise the artifact is appended.
img_entry ==
    /\ ipc = "collect"
    /\ node_at <= Len(prompt_history)
    /\ prompt_history[node_at].has_images
    /\ img_at <= Len(prompt_history[node_at].images)
    /\ LET filename == prompt_history[node_at].images[img_at].filename
       IN  \/ /\ filename = ""
              /\ img_at' = img_at + 1
              /\ UNCHANGED <<images, taken, ipc>>
           \/ /\ filename # ""
              /\ images' = Append(images, Artifact(filename, return_base64))
              /\ taken' = Append(taken, <<node_at, img_at>>)
              /\ img_at' = img_at + 1
              /\ UNCHANGED ipc
           \/ /\ filename # "" /\ return_base64
              /\ ipc' = "raised"
              /\ UNCHANGED <<images, taken, img_at>>
    /\ UNCHANGED <<jobVars, supVars, nonImgVars, prompt_history, return_base64, node_at,
                   img_response>>

\* handler.py:414-416: the current node has no images or no further image:
\* the loop goes to the next node.
img_next_node ==
    /\ ipc = "collect"
    /\ node_at <= Len(prompt_history)
    /\ \/ ~prompt_history[node_at].has_images
       \/ img_at > Len(prompt_history[node_at].images)
    /\ node_at' = node_at + 1
    /\ img_at' = 1
    /\ UNCHANGED <<jobVars, supVars, nonImgVars, prompt_history, return_base64, ipc,
                   images, img_response, taken>>

\* handler.py:434-435: the loop has ended; return images.
img_return ==
    /\ ipc = "collect"
    /\ node_at > Len(prompt_history)
    /\ ipc' = "cleanup"
    /\ UNCHANGED <<jobVars, supVars, nonImgVars, prompt_history, return_base64, node_at,
                   img_at, images, img_response, taken>>

\* handler.py:539: cleanup_outputs returns.
img_cleanup ==
    /\ ipc = "cleanup"
    /\ ipc' = "success"
    /\ UNCHANGED <<jobVars, supVars, nonImgVars, prompt_history, return_base64, node_at,
                   img_at, images, img_response, taken>>

\* handler.py:542-548: the success response.
img_success ==
    /\ ipc = "success"
    /\ img_response' = [status |-> "success", images |-> images,
                        image_count |-> Len(images)]
    /\ ipc' = "returned"
    /\ UNCHANGED <<jobVars, supVars, nonImgVars, prompt_history, return_base64, node_at,
                   img_at, images, taken>>

\* handler.py:550-553: the exception of a failed read reaches handler's except
\* clause, which answers with an error response.
img_except ==
    /\ ipc = "raised"
    /\ img_response' = [status |-> "error"]
    /\ ipc' = "returned"
    /\ UNCHANGED <<jobVars, supVars, nonImgVars, prompt_history, return_base64, node_at,
                   img_at, images, taken>>

ImgNext ==
    img_entry \/ img_next_node \/ img_return \/ img_cleanup \/ img_success \/ img_except

\* ----------------------------------------------------------- cleanup_outputs

InnerCatch_M == FALSE

\* utils.py:215-220: os.remove is wrapped in its own try / except Exception.
InnerCatch == TRUE

\* An entry of the directory: a file older than max_age_seconds, a younger
\* file, or a directory.
DirEntries == {"old file", "young file", "directory"}

\* utils.py:208-209  if not os.path.isfile(filepath): continue
IsFile(e) == e # "directory"

Expired_M(e) == TRUE

\* utils.py:212-213  file_age > max_age_seconds
Expired(e) == e = "old file"

OutputDirs ==
    {[exists |-> FALSE, listable |-> FALSE, entries |-> <<>>],
     [exists |-> TRUE, listable |-> FALSE, entries |-> <<>>]} \cup
    UNION {[exists : {TRUE}, listable : {TRUE}, entries : [1..n -> DirEntries]] :
           n \in 0..MaxFiles}

CleanInit ==
    /\ output_dir \in OutputDirs
    /\ kpc = "cleanup"
    /\ file_at = 1
    /\ removed_count = 0
    /\ cleanup_ret = 0
    /\ job_status = "none"
    /\ removed = {}
    /\ delete_failed = {}
    /\ stat_failed = FALSE

\* No cleanup running, for the other specifications.
CleanIdle ==
    /\ output_dir = [exists |-> FALSE, listable |-> FALSE, entries |-> <<>>]
    /\ kpc = "off"
    /\ file_at = 1
    /\ removed_count = 0
    /\ cleanup_ret = 0
    /\ job_status = "none"
    /\ removed = {}
    /\ delete_failed = {}
    /\ stat_failed = FALSE

\* utils.py:227-229: the outer except clause: log and return 0.
OuterExcept ==
    /\ cleanup_ret' = 0
    /\ kpc' = "after"

\* utils.py:198-205: a missing directory returns 0; os.listdir lists the
\* directory or raises into the outer except clause.
clean_enter ==
    /\ kpc = "cleanup"
    /\ IF ~output_dir.exists THEN cleanup_ret' = 0 /\ kpc' = "after"
       ELSE IF ~output_dir.listable THEN OuterExcept
       ELSE kpc' = "sweep" /\ UNCHANGED cleanup_ret
    /\ UNCHANGED <<jobVars, supVars, nonCleanVars, output_dir, file_at, removed_count,
                   job_status, removed, delete_failed, stat_failed>>

\* utils.py:205-220: the next entry of the listing: a directory and a young
\* file are passed over; an old file is removed, or os.remove raises and the
\* inner except clause logs it; os.path.getmtime of a file may raise (the file
\* is gone since the listing), which ends the sweep in the outer except clause.
clean_entry ==
    /\ kpc = "sweep"
    /\ file_at <= Len(output_dir.entries)
    /\ LET e == output_dir.entries[file_at]
       IN  \/ /\ ~IsFile(e) \/ ~Expired(e)
              /\ file_at' = file_at + 1
              /\ UNCHANGED <<removed_count, cleanup_ret, kpc, removed, delete_failed,
                             stat_failed>>
           \/ /\ IsFile(e)
              /\ stat_failed' = TRUE
              /\ OuterExcept
              /\ UNCHANGED <<file_at, removed_count, removed, delete_failed>>
           \/ /\ IsFile(e) /\ Expired(e)
              /\ removed' = removed \cup {file_at}
              /\ removed_count' = removed_count + 1
              /\ file_at' = file_at + 1
              /\ UNCHANGED <<cleanup_ret, kpc, delete_failed, stat_failed>>
           \/ /\ IsFile(e) /\ Expired(e)
              /\ delete_failed' = delete_failed \cup {file_at}
              /\ IF InnerCatch
                   THEN file_at' = file_at + 1 /\ UNCHANGED <<cleanup_ret, kpc>>
                   ELSE OuterExcept /\ UNCHANGED file_at
              /\ UNCHANGED <<removed_count, removed, stat_failed>>
    /\ UNCHANGED <<jobVars, supVars, nonCleanVars, output_dir, job_status>>

\* utils.py:222-225: the loop has ended; return removed_count.
clean_return ==
    /\ kpc = "sweep"
    /\ file_at > Len(output_dir.entries)
    /\ cleanup_ret' = removed_count
    /\ kpc' = "after"
    /\ UNCHANGED <<jobVars, supVars, nonCleanVars, output_dir, file_at, removed_count,
                   job_status, removed, delete_failed, stat_failed>>

\* handler.py:539-548: cleanup_outputs has returned, its value is dropped and
\* handler returns the success response.
clean_success ==
    /\ kpc = "after"
    /\ job_status' = "success"
    /\ kpc' = "returned"
    /\ UNCHANGED <<jobVars, supVars, nonCleanVars, output_dir, file_at, removed_count,
                   cleanup_ret, removed, delete_failed, stat_failed>>

\* handler.py:539: handler calls cleanup_outputs on the output directory as
\* it is then.
h_cleanup_call ==
    /\ hpc = "cleanup" /\ kpc = "off"
    /\ output_dir' \in OutputDirs
    /\ kpc' = "cleanup"
    /\ hpc' = "in cleanup"
    /\ UNCHANGED <<jobVars, supVars, bufVars, graphVars, depthVars, walkVars, cfgVars,
                   imgVars, runVars, mainVars, pairVars, event, validation_errors,
                   err_args, response, failed_step, performed, file_at, removed_count,
                   cleanup_ret, job_status, removed, delete_failed, stat_failed>>

\* handler.py:539-542: cleanup_outputs has returned; its value is dropped and
\* handler goes on to the success response.
h_cleanup_return ==
    /\ hpc = "in cleanup" /\ kpc = "after"
    /\ kpc' = "returned"
    /\ hpc' = "success"
    /\ performed' = Append(performed, [step |-> "cleanup", result |-> "ok"])
    /\ UNCHANGED <<jobVars, supVars, bufVars, graphVars, depthVars, walkVars, cfgVars,
                   imgVars, runVars, mainVars, pairVars, event, validation_errors,
                   err_args, response, failed_step, output_dir, file_at, removed_count,
                   cleanup_ret, job_status, removed, delete_failed, stat_failed>>

\* One request through handler, with the sweep of cleanup_outputs step by step.
SweepNext ==
    \/ h_input \/ h_ensure \/ h_diag \/ h_refs \/ h_validate \/ h_queue \/ h_wait
    \/ h_collect \/ h_cleanup_call \/ clean_enter \/ clean_entry \/ clean_return
    \/ h_cleanup_return \/ h_success \/ h_except \/ create_error_response

CleanNext == clean_enter \/ clean_entry \/ clean_return \/ clean_success

\* ------------------------------------------ the remote client's run, its end

\* No run of the remote client has ended.
RunIdle ==
    /\ exit_code = "none"
    /\ saved_files = 0

\* send-to-runpod.py:344, 349, 353, 329, 365, 372: what poll_status returns for
\* an outcome: the job's data when it completed, None otherwise.
PollStatusResult(o) == IF o = "completed" THEN "data" ELSE "None"

\* send-to-runpod.py:504-505, 509-510: submit_job or poll_status returned
\* None: sys.exit(1), before save_results.
main_exit ==
    /\ mode = "remote" /\ pc = "done" /\ exit_code = "none"
    /\ outcome = "submit_error" \/ PollStatusResult(outcome) = "None"
    /\ exit_code' = "1"
    /\ UNCHANGED <<jobVars, supVars, nonRunVars, saved_files>>

\* send-to-runpod.py:512-528: poll_status returned the job's data:
\* save_results writes the artifacts it finds and main returns.
main_save ==
    /\ mode = "remote" /\ pc = "done" /\ exit_code = "none"
    /\ outcome # "submit_error" /\ PollStatusResult(outcome) # "None"
    /\ saved_files' \in 0..MaxImages
    /\ exit_code' = "0"
    /\ UNCHANGED <<jobVars, supVars, nonRunVars>>

RemoteNext ==
    \/ submit_job \/ poll_enter \/ poll_check \/ poll_request \/ poll_sleep
    \/ main_exit \/ main_save

\* ---------------------------------------- the remote client's run, its start

check_credentials_M(key, endpoint) == key # ""

\* send-to-runpod.py:138-158
check_credentials(key, endpoint) == key # "" /\ endpoint # ""

\* send-to-runpod.py:474-475  args.x or config.runpod.x
OrElse(a, b) == IF a # "" THEN a ELSE b

MainInit ==
    /\ args \in [api_key : {"", "arg key"}, endpoint_id : {"", "arg endpoint"}]
    /\ runpod_config \in [api_key : {"", "cfg key"}, endpoint_id : {"", "cfg endpoint"}]
    /\ api_key = ""
    /\ endpoint_id = ""
    /\ credentials_ok = "none"

\* No remote client starting, for the other specifications.
MainIdle ==
    /\ args = [api_key |-> "", endpoint_id |-> ""]
    /\ runpod_config = [api_key |-> "", endpoint_id |-> ""]
    /\ api_key = ""
    /\ endpoint_id = ""
    /\ credentials_ok = "none"

\* send-to-runpod.py:473-479: main takes the credentials from the command
\* line or the configuration and checks them; sys.exit(1) when one is missing.
main_credentials ==
    /\ mode = "remote" /\ pc = "credentials"
    /\ api_key' = OrElse(args.api_key, runpod_config.api_key)
    /\ endpoint_id' = OrElse(args.endpoint_id, runpod_config.endpoint_id)
    /\ IF check_credentials(api_key', endpoint_id')
         THEN /\ credentials_ok' = "True"
              /\ pc' = "read"
              /\ UNCHANGED <<outcome, exit_code>>
         ELSE /\ credentials_ok' = "False"
              /\ pc' = "done"
              /\ outcome' = "config_error"
              /\ exit_code' = "1"
    /\ UNCHANGED <<supVars, bufVars, hdlVars, graphVars, depthVars, walkVars, cfgVars,
                   imgVars, cleanVars, pairVars, saved_files, args, runpod_config, config, now,
                   start_time, last_health_check, submit_at, entered_at, checked_at,
                   submits, submit_resp, polls, late_polls, term, last_probe, benign>>

\* send-to-runpod.py:486-500 with 161-182: read_workflow returns the workflow
\* or None (sys.exit(1)); the reference images are encoded.
main_read_workflow ==
    /\ mode = "remote" /\ pc = "read"
    /\ \/ /\ pc' = "submit"
          /\ UNCHANGED <<outcome, exit_code>>
       \/ /\ pc' = "done"
          /\ outcome' = "workflow_error"
          /\ exit_code' = "1"
    /\ UNCHANGED <<supVars, bufVars, hdlVars, graphVars, depthVars, walkVars, cfgVars,
                   imgVars, cleanVars, pairVars, saved_files, mainVars, config, now,
                   start_time, last_health_check, submit_at, entered_at, checked_at,
                   submits, submit_resp, polls, late_polls, term, last_probe, benign>>

ClientNext == main_credentials \/ main_read_workflow \/ RemoteNext

\* ------------------------------------------- the two polling loops, side by side

AbstractStatuses == {"Queued", "Running", "Succeeded", "Failed"}

\* The local engine's answer for an abstract status (handler.py:379-391).
LocalStatusOf(a) ==
    CASE a = "Queued"    -> "absent"
      [] a = "Running"   -> "running"
      [] a = "Succeeded" -> "completed"
      [] a = "Failed"    -> "error"

\* The remote queue's answer for an abstract status (send-to-runpod.py:342-355).
RemoteStatusOf(a) ==
    CASE a = "Queued"    -> "IN_QUEUE"
      [] a = "Running"   -> "IN_PROGRESS"
      [] a = "Succeeded" -> "COMPLETED"
      [] a = "Failed"    -> "FAILED"

\* The answer to poll number k: the k-th of the sequence, Running after its end.
AnswerAt(seq, k) == IF k <= Len(seq) THEN seq[k] ELSE "Running"

NewRun == [elapsed |-> 0, polls |-> 0, outcome |-> "none"]

PairInit ==
    /\ answers \in UNION {[1..n -> AbstractStatuses] : n \in 0..MaxAnswers}
    /\ both_timeout \in Timeouts
    /\ both_interval \in Intervals
    /\ local_run = NewRun
    /\ remote_run = NewRun

\* No pair of loops running, for the other specifications.
PairIdle ==
    /\ answers = <<>>
    /\ both_timeout = 0
    /\ both_interval = 1
    /\ local_run = [elapsed |-> 0, polls |-> 0, outcome |-> "off"]
    /\ remote_run = [elapsed |-> 0, polls |-> 0, outcome |-> "off"]

\* handler.py:362-398: one iteration of wait_for_completion with an engine
\* that answers at once and a health check that succeeds: the loop test, the
\* poll, and time.sleep(2).
pair_local ==
    /\ local_run.outcome = "none"
    /\ IF ~LocalLoopContinues(local_run.elapsed, both_timeout)
         THEN local_run' = [local_run EXCEPT !.outcome = "timeout"]
         ELSE LET o == LocalPollOutcome(LocalStatusOf(AnswerAt(answers, local_run.polls + 1)))
              IN  local_run' =
                      [elapsed |-> IF o = "none" THEN local_run.elapsed + LocalPollSleep
                                   ELSE local_run.elapsed,
                       polls |-> local_run.polls + 1,
                       outcome |-> o]
    /\ UNCHANGED <<jobVars, supVars, nonPairVars, answers, both_timeout, both_interval,
                   remote_run>>

\* send-to-runpod.py:324-361: one iteration of poll_status with a queue that
\* answers at once: the timeout test, the poll, and time.sleep(poll_interval).
pair_remote ==
    /\ remote_run.outcome = "none"
    /\ IF RemoteExpired(remote_run.elapsed, both_timeout)
         THEN remote_run' = [remote_run EXCEPT !.outcome = "timeout"]
         ELSE LET o == RemotePollOutcome(RemoteStatusOf(AnswerAt(answers, remote_run.polls + 1)))
              IN  remote_run' =
                      [elapsed |-> IF o = "none" THEN remote_run.elapsed + both_interval
                                   ELSE remote_run.elapsed,
                       polls |-> remote_run.polls + 1,
                       outcome |-> o]
    /\ UNCHANGED <<jobVars, supVars, nonPairVars, answers, both_timeout, both_interval,
                   local_run>>

PairNext == pair_local \/ pair_remote

\* --------------------------------------------------------- specifications

\* One job, local or remote, from submission to its outcome.
\* The subsystems other than the job and the supervisor, not running.
\* The subsystems added after the resolver, not running.
LaterIdle ==
    DepthIdle /\ WalkIdle /\ CfgIdle /\ ImgIdle /\ CleanIdle /\ RunIdle /\ MainIdle
    /\ PairIdle

OtherIdle == BufInit /\ HdlIdle /\ GraphIdle /\ LaterIdle

Init == JobInit /\ SupIdle /\ OtherIdle
Next == JobNext
Spec == Init /\ [][Next]_vars

\* The request's single thread keeps running until it has ended.
FairSpec == Spec /\ WF_vars(Next)

\* The supervisor with requests handled one at a time.
SupSpecInit == JobIdle /\ SupInit /\ OtherIdle
SupNext == worker_exits \/ \E t \in SeqThreads : SupStep(t)
SupSpec == SupSpecInit /\ [][SupNext]_vars

\* The supervisor with two request threads interleaved.
ConcNext == worker_exits \/ \E t \in Threads : SupStep(t)
ConcSpec == SupSpecInit /\ [][ConcNext]_vars

\* Two threads interleaved, each serving its first request (the first one
\* after it has initialized the worker).
RaceNext ==
    \/ worker_exits
    \/ \E t \in Threads : (call[t] \in {"none", "init"} \/ spc[t] # "idle") /\ SupStep(t)
RaceSpec == SupSpecInit /\ [][RaceNext]_vars

\* The captured-output buffer: one reader thread and one request thread.
BufSpecInit == JobIdle /\ SupIdle /\ BufInit /\ HdlIdle /\ GraphIdle /\ LaterIdle
BufSpec == BufSpecInit /\ [][BufNext]_vars

\* The captured-output buffer over one restart of the worker: the reader of
\* the old process and the reader of the new one.
RestartNext ==
    \/ restart
    \/ \E r \in Readers : reader_put(r) \/ reader_drop(r) \/ reader_retry(r) \/ reader_eof(r)
RestartSpec == BufSpecInit /\ [][RestartNext]_vars

\* One request through handler.
HdlSpecInit == JobIdle /\ SupIdle /\ BufInit /\ HdlInit /\ GraphIdle /\ LaterIdle
HdlSpec == HdlSpecInit /\ [][HdlNext]_vars

\* The resolver applied to every graph and target set within the bounds.
GraphSpecInit == JobIdle /\ SupIdle /\ BufInit /\ HdlIdle /\ GraphInit /\ LaterIdle
GraphSpec == GraphSpecInit /\ [][GraphNext]_vars

\* The resolver applied twice to every graph and target set within the bounds.
RetrimSpec == GraphSpecInit /\ [][RetrimNext]_vars

\* A graph handed to a traversal, the operator-level resolver not called.
GraphGiven ==
    /\ workflow \in Graphs
    /\ target_node_ids = {}
    /\ gpc = "off"
    /\ trimmed = <<>>
    /\ reclosed = {}
    /\ retrimmed = <<>>

\* calculate_node_depths on every graph within the bounds, in every
\* iteration order.
DepthSpecInit ==
    JobIdle /\ SupIdle /\ BufInit /\ HdlIdle /\ GraphGiven /\ DepthInit /\ WalkIdle
    /\ CfgIdle /\ ImgIdle /\ CleanIdle /\ RunIdle /\ MainIdle /\ PairIdle
DepthSpec == DepthSpecInit /\ [][DepthNext]_vars

\* A graph and a set of targets handed to trim_workflow.
GraphAndTargets ==
    /\ workflow \in {g \in Graphs : Len(g) <= MaxWalkNodes}
    /\ target_node_ids \in SUBSET NodeIds
    /\ gpc = "off"
    /\ trimmed = <<>>
    /\ reclosed = {}
    /\ retrimmed = <<>>

\* trim_workflow step by step on every graph and target set within the
\* bounds, in every iteration order.
WalkSpecInit ==
    JobIdle /\ SupIdle /\ BufInit /\ HdlIdle /\ GraphAndTargets /\ DepthIdle /\ WalkInit
    /\ CfgIdle /\ ImgIdle /\ CleanIdle /\ RunIdle /\ MainIdle /\ PairIdle
WalkSpec == WalkSpecInit /\ [][WalkNext]_vars

\* The worker's settings from the import of the configuration to the first
\* request's wait, for every environment within the bounds.
CfgSpecInit ==
    JobIdle /\ SupIdle /\ BufInit /\ HdlIdle /\ GraphIdle /\ DepthIdle /\ WalkIdle
    /\ CfgInit /\ ImgIdle /\ CleanIdle /\ RunIdle /\ MainIdle /\ PairIdle
CfgSpec == CfgSpecInit /\ [][CfgNext]_vars

\* get_output_images and the handler's answer, for every history within the
\* bounds and both values of return_base64.
ImgSpecInit ==
    JobIdle /\ SupIdle /\ BufInit /\ HdlIdle /\ GraphIdle /\ DepthIdle /\ WalkIdle
    /\ CfgIdle /\ ImgInit /\ CleanIdle /\ RunIdle /\ MainIdle /\ PairIdle
ImgSpec == ImgSpecInit /\ [][ImgNext]_vars

\* cleanup_outputs after a job that succeeded, for every directory within the
\* bounds and every failure of a removal, of a stat and of the listing.
CleanSpecInit ==
    JobIdle /\ SupIdle /\ BufInit /\ HdlIdle /\ GraphIdle /\ DepthIdle /\ WalkIdle
    /\ CfgIdle /\ ImgIdle /\ CleanInit /\ RunIdle /\ MainIdle /\ PairIdle
CleanSpec == CleanSpecInit /\ [][CleanNext]_vars

\* One request of at most one node through handler and the sweep.
SweepSpecInit == HdlSpecInit /\ Len(event.workflow) <= 1
SweepSpec == SweepSpecInit /\ [][SweepNext]_vars

\* One run of the remote client, from the submission to the end of main.
RemoteSpecInit == Init /\ mode = "remote"
RemoteSpec == RemoteSpecInit /\ [][RemoteNext]_vars

\* One run of the remote client from the start of main, for every way the
\* credentials are given or missing.
ClientSpecInit ==
    /\ mode = "remote" /\ now = 0 /\ timeout \in Timeouts /\ poll_interval \in Intervals
    /\ health_check_interval = 1 /\ pc = "credentials" /\ start_time = 0
    /\ last_health_check = 0 /\ outcome = "none" /\ submit_at = 0
    /\ entered_at = 0 /\ checked_at = 0 /\ submits = 0 /\ submit_resp = "none"
    /\ polls = 0 /\ late_polls = 0 /\ term = "none" /\ last_probe = "none"
    /\ benign = TRUE
    /\ SupIdle /\ BufInit /\ HdlIdle /\ GraphIdle /\ DepthIdle /\ WalkIdle /\ CfgIdle
    /\ ImgIdle /\ CleanIdle /\ RunIdle /\ MainInit /\ PairIdle
ClientSpec == ClientSpecInit /\ [][ClientNext]_vars

\* wait_for_completion and poll_status given the same timeout, the same
\* interval and the same answers.
PairSpecInit ==
    JobIdle /\ SupIdle /\ BufInit /\ HdlIdle /\ GraphIdle /\ DepthIdle /\ WalkIdle
    /\ CfgIdle /\ ImgIdle /\ CleanIdle /\ RunIdle /\ MainIdle /\ PairInit
PairSpec == PairSpecInit /\ [][PairNext]_vars

\* ------------------------------------------------------------- properties

\* The outcome a terminal status stands for.
TerminalOutcome(s) ==
    CASE s \in {"completed", "COMPLETED"} -> "completed"
      [] s \in {"error", "FAILED"}        -> "failed"
      [] s = "CANCELLED"                  -> "cancelled"
      [] OTHER                            -> "none"

\* C1: in both polling loops the step that first observes a terminal status
\* ends the loop with the outcome of exactly that status, and from then on no
\* status poll is issued and the outcome never changes.
C1_FirstTerminalEndsLoop ==
    [][ /\ (term = "none" /\ term' # "none")
            => (pc' = "done" /\ outcome' = TerminalOutcome(term'))
        /\ (term # "none")
            => (polls' = polls /\ outcome' = outcome /\ term' = term) ]_vars

C1_Witness ==
    mode = "local" /\ term = "error" /\ polls >= 2 /\ pc = "done" /\ outcome = "failed"

\* C2: the timed-out outcome is produced only if no poll observed a terminal
\* status, and never before timeout has elapsed since the loop was entered.
C2_TimeoutNotEarly ==
    outcome = "timeout" => (term = "none" /\ now - entered_at >= timeout)

C2_Witness ==
    outcome = "timeout" /\ polls >= 2 /\ timeout >= 3

\* C3: every run ends; a run whose submission was accepted and whose every
\* transport answer was non-terminal and returned ends timed out; and at most
\* one status poll is started after more than timeout has elapsed.
C3_BenignRunTimesOut ==
    /\ <>(pc = "done")
    /\ [](pc = "done" /\ benign => outcome = "timeout")
    /\ [](late_polls <= 1)

C3_Witness ==
    pc = "done" /\ benign /\ outcome = "timeout" /\ late_polls = 1 /\ polls >= 2

C5_UnhealthyProbeAborts ==
    last_probe \in {"non200", "noresp"} => (pc = "done" /\ outcome = "unresponsive")

\* C6: submit is issued at most once per request, and a rejected submission
\* (non-2xx response or request error) ends the request with an error without
\* any status poll.
C6_SubmitOnceNoPollAfterReject ==
    /\ submits <= 1
    /\ submit_resp \in {"4xx", "5xx", "reqerror"}
         => (pc = "done" /\ outcome = "submit_error" /\ polls = 0)
    /\ outcome \in {"failed", "timeout", "cancelled"} => (pc = "done" /\ submits = 1)

C6_Witness ==
    mode = "remote" /\ submit_resp = "5xx" /\ pc = "done" /\ submits = 1

\* The last call of thread t has returned.
Returned(t) == spc[t] = "idle" /\ call[t] # "none" /\ ret[t] # "none"

\* C7: crash recovery within one call of ensure_comfyui_running on a Ready
\* supervisor whose process has exited: the call clears the handle and the
\* flag (Crashed), spawns exactly one new process (Starting) and, when a
\* readiness probe of the new process answers 200 within the window, returns
\* true with the flag set and the handle referring to the new process (Ready).
C7_CrashRecoveryInOneCall ==
    \A t \in Threads :
        (call[t] = "ensure" /\ via[t] = "crashed" /\ entry_ready[t]) =>
            /\ spc[t] \in {"s_guard", "s_spawn"}
                 => (comfyui_process = None /\ ~server_ready /\ spawns[t] = 0)
            /\ spc[t] = "s_wait"
                 => (comfyui_process = last_spawn[t] /\ comfyui_process # None
                     /\ ~server_ready /\ spawns[t] = 1)
            /\ (Returned(t) /\ got200[t])
                 => (ret[t] = "true" /\ server_ready /\ comfyui_process # None
                     /\ comfyui_process = last_spawn[t] /\ spawns[t] = 1)

C7_Witness ==
    /\ Returned(1) /\ call[1] = "ensure" /\ via[1] = "crashed" /\ entry_ready[1]
    /\ got200[1] /\ ret[1] = "true" /\ server_ready /\ spawns[1] = 1

\* C8: a start whose readiness probes do not answer 200 before the window
\* elapses, or whose spawn raises, returns false with the handle cleared, the
\* flag false and the process it spawned (if any) no longer running.
C8_FailedStartCleansUp ==
    \A t \in Threads :
        (Returned(t) /\ ((spawns[t] >= 1 /\ ~got200[t]) \/ spawn_failed[t])) =>
            /\ ret[t] = "false"
            /\ comfyui_process = None
            /\ ~server_ready
            /\ last_spawn[t] # None => proc[last_spawn[t]] \in {"killed", "exited"}

C8_Witness ==
    /\ Returned(1) /\ spawns[1] = 1 /\ ~got200[1] /\ ret[1] = "false"
    /\ proc[last_spawn[1]] = "killed" /\ health_check_timeout >= 1

\* C9: server_ready is true only if a liveness probe answered 200 after the
\* most recent spawn; it is false before the first spawn; and where a crash
\* or unresponsiveness has been detected the flag is false and the handle
\* cleared.
C9_ReadyOnlyAfterProbe ==
    /\ server_ready => (total_spawns = 1 /\ ok_since_spawn)
    /\ \A t \in Threads :
        (spc[t] \in {"s_guard", "s_spawn"} /\ via[t] \in {"crashed", "unresponsive"})
            => (~server_ready /\ comfyui_process = None)

C9_Witness ==
    /\ server_ready /\ ok_since_spawn /\ Returned(1) /\ call[1] = "ensure"
    /\ via[1] = "unresponsive" /\ ret[1] = "true"

\* C10: the worker is never double-spawned: every running process the
\* supervisor spawned is the one the handle refers to, so at most one runs.
C10_NoDoubleSpawn ==
    \A p \in Pids : proc[p] = "alive" => comfyui_process = p

\* C11: one call of ensure_comfyui_running spawns at most one process (none
\* when the process is alive and the liveness probe is accepted) and so opens
\* at most one readiness window; a start that fails is not retried within the
\* call but returned as false, leaving no handle, so that the next call, which
\* is always possible, starts again.
C11_OneStartPerCall ==
    \A t \in SeqThreads :
        /\ spawns[t] <= 1
        /\ spc[t] = "s_wait" => spawns[t] = 1
        /\ (Returned(t) /\ call[t] = "ensure" /\ via[t] = "none" /\ ret[t] = "true")
             => spawns[t] = 0
        /\ (Returned(t) /\ ((spawns[t] >= 1 /\ ~got200[t]) \/ spawn_failed[t]))
             => ret[t] = "false"
        /\ (Returned(t) /\ ret[t] = "false")
             => (comfyui_process = None /\ ~server_ready /\ ENABLED handler_ensure(t))

C11_Witness ==
    /\ Returned(1) /\ call[1] = "ensure" /\ via[1] = "crashed" /\ ret[1] = "false"
    /\ spawns[1] = 1 /\ ~got200[1] /\ ENABLED handler_ensure(1)

\* C12: the captured-output buffer never holds more lines than its capacity,
\* under every interleaving of the reader thread and a request thread.
C12_BufferWithinCapacity ==
    Len(comfyui_output_queue) <= MaxQueue

C12_Witness ==
    Len(comfyui_output_queue) = MaxQueue /\ rpc[1] = "full" /\ lpc = "get"

\* C13: the reader enqueues every captured line, discards a buffered line
\* only while the buffer is full, and never loses a captured line while the
\* buffer has free space, also when a request thread drains the buffer
\* between the reader's failed put and its drop-and-retry.
C13_DropOldestOnlyWhenFull ==
    /\ lost = {}
    /\ ~lost_free
    /\ ~dropped_nonfull

\* C14: when the buffer held more than the requested number of lines, the
\* lines get_recent_comfyui_logs returns are the last ones written, in
\* capture order.
C14_RecentLogsAreNewest ==
    (lpc = "done" /\ Len(snap) > RecentLines)
        => logs = SubSeq(snap, Len(snap) - RecentLines + 1, Len(snap))

\* C15: whichever step fails, no exception leaves handler; what handler
\* returns has status success or error, error exactly when a step failed,
\* and an error response carries the error message and system_state.
C15_StructuredResult ==
    /\ hpc # "escaped"
    /\ hpc = "returned" =>
        /\ response.status \in {"success", "error"}
        /\ response.status = "error" <=> failed_step # "none"
        /\ response.status = "error"
             => (response.error # "absent" /\ response.system_state = "present")

C15_Witness ==
    /\ hpc = "returned" /\ failed_step = "collect" /\ response.status = "error"
    /\ response.traceback /\ response.system_state = "present"

\* The nodes of a workflow that name a checkpoint, LoRA or input image that
\* is not present.
Violating(wf) ==
    {i \in 1..Len(wf) :
        /\ wf[i].class_type \in {"CheckpointLoaderSimple", "LoraLoader", "LoadImage"}
        /\ wf[i].file = "missing"}

\* C16: validate_workflow returns exactly one entry for each violating node,
\* in iteration order, hence the empty list iff no node violates; on a
\* non-empty list the handler does not go on, and its error response carries
\* the complete list.
C16_CompleteValidationList ==
    /\ hpc \in {"queue", "wait", "collect", "cleanup", "success"}
         => (validation_errors = <<>> /\ Violating(event.workflow) = {})
    /\ failed_step = "validate" =>
        /\ Len(validation_errors) = Cardinality(Violating(event.workflow))
        /\ {validation_errors[k].node : k \in 1..Len(validation_errors)}
             = Violating(event.workflow)
        /\ Violating(event.workflow) # {}
        /\ \A j, k \in 1..Len(validation_errors) :
             j < k => validation_errors[j].node < validation_errors[k].node
        /\ hpc \in {"error_response", "returned"}
        /\ hpc = "returned" =>
             (response.status = "error" /\ response.diagnostic_info = validation_errors)

C16_Witness ==
    /\ hpc = "returned" /\ failed_step = "validate" /\ Len(validation_errors) = 2
    /\ response.diagnostic_info = validation_errors

\* The direct dependencies of the nodes of S that are nodes of the graph.
DirectDeps(wf, S) == {d \in DOMAIN wf : \E n \in S : d \in wf[n].inputs}

\* The reference closure: the targets that are nodes of the graph plus every
\* node reachable from them by following references backward, as the least
\* fixed point reached by adding direct dependencies k times.
RECURSIVE Grow(_, _, _)
Grow(wf, S, k) == IF k = 0 THEN S ELSE Grow(wf, S \cup DirectDeps(wf, S), k - 1)

RefClosure(wf, targets) == Grow(wf, targets \cap DOMAIN wf, MaxNodes)

\* C17: the set of nodes trim_workflow keeps is the reference closure of the
\* targets: each target that is a node, every node reachable from one by
\* following references backward, and no other node.
C17_TrimIsClosure ==
    gpc = "trimmed" =>
        /\ DOMAIN trimmed = RefClosure(workflow, target_node_ids)
        /\ target_node_ids \cap DOMAIN workflow \subseteq DOMAIN trimmed

\* The chain 1 <- 2 <- 3 trimmed to target 3 keeps 1, 2 and 3.
C17_Witness ==
    /\ gpc = "trimmed" /\ target_node_ids = {3}
    /\ workflow = (1 :> [inputs |-> {}] @@ 2 :> [inputs |-> {1}] @@ 3 :> [inputs |-> {2}])
    /\ DOMAIN trimmed = {1, 2, 3}

\* C18: every node trim_workflow keeps has each dependency that exists in
\* the graph kept as well, and maps to the record it had in the graph.
C18_TrimmedIsClosedSubgraph ==
    gpc = "trimmed" =>
        \A n \in DOMAIN trimmed :
            /\ n \in DOMAIN workflow
            /\ trimmed[n] = workflow[n]
            /\ \A d \in workflow[n].inputs : d \in DOMAIN workflow => d \in DOMAIN trimmed

C18_Witness ==
    /\ gpc = "trimmed" /\ DOMAIN trimmed = {1, 2} /\ DOMAIN workflow = {1, 2}
    /\ target_node_ids = {2} /\ workflow[2].inputs = {1, 3}

\* C19: the closure is idempotent: closing the closure in the same graph adds
\* and removes nothing.
C19_ClosureIdempotent ==
    gpc = "twice" => reclosed = DOMAIN trimmed

C19_Witness ==
    /\ gpc = "twice" /\ target_node_ids = {3} /\ DOMAIN trimmed = {1, 2, 3}
    /\ reclosed = {1, 2, 3} /\ workflow[3].inputs = {2} /\ workflow[2].inputs = {1}

\* C20: trimming is idempotent: trimming the trimmed graph to the same
\* targets returns the same mapping.
C20_TrimIdempotent ==
    gpc = "twice" => retrimmed = trimmed

C20_Witness ==
    /\ gpc = "twice" /\ target_node_ids = {2} /\ DOMAIN workflow = {1, 2, 3}
    /\ DOMAIN trimmed = {1, 2} /\ retrimmed = trimmed
    /\ workflow[2].inputs = {1} /\ workflow[3].inputs = {1}

\* The nodes of the graph from which node n is reachable by following
\* references backward, n itself only if it lies on a cycle.
Ancestors(wf, n) == Grow(wf, DirectDeps(wf, {n}), MaxNodes)

\* The graph contains a dependency cycle.
HasCycle(wf) == \E n \in DOMAIN wf : n \in Ancestors(wf, n)

\* The largest element of a non-empty set of numbers.
SetMax(S) == CHOOSE x \in S : \A y \in S : x >= y

\* The longest-path depth, by k rounds of relaxation from depth 0: after as
\* many rounds as there are nodes an acyclic graph's depths no longer change.
RECURSIVE Relax(_, _, _)
Relax(wf, d, k) ==
    IF k = 0 THEN d
    ELSE Relax(wf,
               [n \in DOMAIN wf |->
                   1 + SetMax({0} \cup {d[m] : m \in wf[n].inputs \cap DOMAIN wf})],
               k - 1)

LongestPathDepth(wf) == Relax(wf, [n \in DOMAIN wf |-> 0], MaxNodes)

\* C21: on an acyclic graph calculate_node_depths assigns every node a depth
\* of at least 1 that is greater than the depth of each of its direct
\* dependencies in the graph.
C21_DepthsIncreaseAlongEdges ==
    (dpc = "done" /\ ~HasCycle(workflow)) =>
        /\ DOMAIN depths = DOMAIN workflow
        /\ \A n \in DOMAIN workflow :
            /\ depths[n] >= 1
            /\ \A d \in workflow[n].inputs \cap DOMAIN workflow : depths[n] > depths[d]

C21_Witness ==
    /\ dpc = "done" /\ DOMAIN workflow = {1, 2, 3}
    /\ workflow[3].inputs = {2} /\ workflow[2].inputs = {1} /\ workflow[1].inputs = {}
    /\ depths[1] = 1 /\ depths[2] = 2 /\ depths[3] = 3

\* C22: on an acyclic graph the depth of every node is 1 + the largest depth
\* of its direct dependencies (0 if it has none), whatever the order in which
\* keys and inputs are iterated and however often a dependency is shared.
C22_DepthIsLongestPath ==
    (dpc = "done" /\ ~HasCycle(workflow)) => depths = LongestPathDepth(workflow)

\* Node 1 is shared by 2 and 3, and 3 also depends on 2.
C22_Witness ==
    /\ dpc = "done" /\ DOMAIN workflow = {1, 2, 3}
    /\ workflow[1].inputs = {} /\ workflow[2].inputs = {1} /\ workflow[3].inputs = {1, 2}
    /\ depths = <<1, 2, 3>>

\* The number of steps calculate_node_depths takes on an acyclic graph: one
\* call and one return per node, one call per reference, and the final return.
RECURSIVE RefCount(_, _)
RefCount(wf, n) ==
    IF n = 0 THEN 0 ELSE Cardinality(wf[n].inputs) + RefCount(wf, n - 1)

WorkBound(wf) == 2 * Len(wf) + RefCount(wf, Len(wf)) + 1

\* C24: on a graph with a dependency cycle calculate_node_depths never
\* returns normally: the calls nest until the interpreter raises; on an
\* acyclic graph it never raises, always has a next step until it has
\* returned, and takes a bounded number of steps.
C24_DepthTerminatesIffAcyclic ==
    /\ dpc = "done" => ~HasCycle(workflow)
    /\ dpc = "raised" => HasCycle(workflow)
    /\ dsteps > WorkBound(workflow) => HasCycle(workflow)
    /\ Len(dstack) > Len(workflow) => HasCycle(workflow)
    /\ dpc = "loop" => ENABLED DepthNext

C24_Witness ==
    /\ dpc = "raised" /\ Len(dstack) = RecursionLimit
    /\ workflow[1].inputs = {2} /\ workflow[2].inputs = {1} /\ depths = <<>>

\* The references of node n to ids that are no node of the graph.
Dangling(wf, n) == wf[n].inputs \ DOMAIN wf

\* C23: a reference to an id that is no node of the graph is ignored: the
\* dependency resolver and the trimmer add no node for it, and
\* calculate_node_depths never enters it, records no depth for it and counts
\* it as depth 0, so a node whose references all dangle gets depth 1; no
\* walk fails because of it.
C23_DanglingReferenceIgnored ==
    /\ DOMAIN depths \subseteq DOMAIN workflow
    /\ \A i \in 1..Len(dstack) : dstack[i].node \in DOMAIN workflow
    /\ dpc = "raised" => HasCycle(workflow)
    /\ dpc = "done" =>
        \A n \in DOMAIN workflow :
            workflow[n].inputs \cap DOMAIN workflow = {} => depths[n] = 1
    /\ dsteps = 0 =>
        /\ \A t \in NodeIds :
            get_node_dependencies(workflow, t) \subseteq DOMAIN workflow
        /\ \A t \in DOMAIN workflow :
            get_node_dependencies(workflow, t) =
                get_node_dependencies([n \in DOMAIN workflow |->
                    [inputs |-> workflow[n].inputs \cap DOMAIN workflow]], t)
        /\ DOMAIN trim_workflow(workflow, NodeIds) = DOMAIN workflow

\* Node 1's only reference is to id 3, which is no node of the graph; node 2
\* depends on node 1.
C23_Witness ==
    /\ dpc = "done" /\ DOMAIN workflow = {1, 2}
    /\ Dangling(workflow, 1) = {3} /\ workflow[1].inputs = {3}
    /\ workflow[2].inputs = {1}
    /\ depths = <<1, 2>>

\* Some target lies on a dependency cycle or depends on a node that does.
CycleReachable(wf, targets) ==
    \E n \in RefClosure(wf, targets) : n \in Ancestors(wf, n)

\* The number of steps one trim_workflow call takes at most: per target one
\* call, and one return and one call per reference for each node; then the
\* build.
WalkBound(wf, targets) ==
    Cardinality(targets) * (1 + Len(wf) + RefCount(wf, Len(wf))) + 1

\* C25 as stated: when a dependency cycle is reachable from a target,
\* trim_workflow does not return.
C25_NoReturnOnCycle ==
    wpc = "done" => ~CycleReachable(workflow, target_node_ids)

\* C25, amended: trim_workflow returns on every finite graph, with or without
\* cycles: it never reaches the recursion limit, its calls nest no deeper
\* than there are nodes, it always has a next step until it has returned, it
\* takes a bounded number of steps, and it returns the targets' closure.
C25_WalkTerminates ==
    /\ wpc # "raised"
    /\ Len(wstack) <= Len(workflow)
    /\ wsteps <= WalkBound(workflow, target_node_ids)
    /\ wpc = "loop" => ENABLED WalkNext
    /\ wpc = "done" => DOMAIN wtrimmed = RefClosure(workflow, target_node_ids)

\* Nodes 1 and 2 depend on each other; the trim for target 1 has returned both.
C25_Witness ==
    /\ wpc = "done" /\ target_node_ids = {1}
    /\ Len(workflow) >= 2 /\ 2 \in workflow[1].inputs /\ 1 \in workflow[2].inputs
    /\ DOMAIN wtrimmed = {1, 2}

\* C26: during one trim_workflow call each node has its inputs expanded at
\* most once, and calculate_node_depths assigns each node's depth at most
\* once.
C26_ExpandedOncePerCall ==
    \A n \in NodeIds : expanded[n] <= 1 /\ computed[n] <= 1

\* C27: the timeout wait_for_completion uses is never below 30 seconds and
\* the timeout wait_for_health_check uses is never below 5 seconds, whatever
\* the environment sets.
C27_MinimumsEnforced ==
    /\ cpc \in {"serve", "done"} => health_timeout_used >= MinHealthCheckTimeout
    /\ cpc = "done" => completion_timeout_used >= MinExecutionTimeout

\* The image entries with a filename that the outputs declare.
Declared(h) ==
    {p \in (1..Len(h)) \X (1..MaxImages) :
        /\ h[p[1]].has_images
        /\ p[2] <= Len(h[p[1]].images)
        /\ h[p[1]].images[p[2]].filename # ""}

\* Entry p comes before entry q in the outputs.
Before(p, q) == p[1] < q[1] \/ (p[1] = q[1] /\ p[2] < q[2])

\* C29: when get_output_images has returned, its list holds exactly one
\* artifact per declared image entry with a filename, in the outputs' order;
\* with return_base64 each artifact holds the base64 of its file's bytes and
\* no path, otherwise its path and no data; the success response's
\* image_count is the number of artifacts.
C29_OneArtifactPerImage ==
    /\ ipc \in {"cleanup", "success"} \/ (ipc = "returned" /\ img_response.status = "success") =>
        /\ Len(images) = Len(taken)
        /\ {taken[k] : k \in 1..Len(taken)} = Declared(prompt_history)
        /\ \A j, k \in 1..Len(taken) : j < k => Before(taken[j], taken[k])
        /\ \A k \in 1..Len(images) :
            LET f == prompt_history[taken[k][1]].images[taken[k][2]].filename
            IN  /\ images[k].filename = f
                /\ return_base64 =>
                    /\ DOMAIN images[k] = {"filename", "data"}
                    /\ images[k].data = Base64(FileBytes(Filepath(f)))
                /\ ~return_base64 =>
                    /\ DOMAIN images[k] = {"filename", "path"}
                    /\ images[k].path = Filepath(f)
    /\ img_response.status = "success" =>
        /\ img_response.images = images
        /\ img_response.image_count = Len(images)

\* Two output nodes, three named entries and one without a filename: three
\* artifacts with inline data.
C29_Witness ==
    /\ ipc = "returned" /\ img_response.status = "success" /\ return_base64
    /\ img_response.image_count = 3
    /\ Len(prompt_history) = 2
    /\ Len(prompt_history[1].images) = 2 /\ Len(prompt_history[2].images) = 2
    /\ Cardinality(Declared(prompt_history)) = 3

\* The old files of the directory's listing.
OldFiles(d) == {i \in 1..Len(d.entries) : d.entries[i] = "old file"}

\* C28: cleanup_outputs always returns a count; a removal that fails does not
\* end the sweep: unless a stat fails, every old file of the listing has been
\* removed or has failed to be removed when cleanup_outputs returns, and the
\* count is the number of files removed; a directory that cannot be listed
\* gives 0; the job is reported as success whatever happened.
C28_CleanupBestEffort ==
    /\ kpc \in {"cleanup", "sweep", "after", "returned"}
    /\ kpc \in {"after", "returned"} =>
        /\ cleanup_ret \in 0..Len(output_dir.entries)
        /\ ~stat_failed =>
            /\ removed \cup delete_failed = OldFiles(output_dir)
            /\ removed \cap delete_failed = {}
            /\ cleanup_ret = Cardinality(removed)
    /\ kpc = "returned" <=> job_status = "success"

\* The first old file could not be removed, the second was.
C28_Witness ==
    /\ kpc = "returned" /\ job_status = "success"
    /\ delete_failed = {1} /\ removed = {2} /\ cleanup_ret = 1

\* C30: the poll that first returns CANCELLED ends poll_status with None at
\* once; from then on the client neither polls nor sleeps, its only step is
\* sys.exit(1), and no artifact is ever saved.
C30_CancelledIsTerminal ==
    /\ [](outcome = "cancelled" =>
            /\ mode = "remote" /\ pc = "done" /\ term = "CANCELLED"
            /\ PollStatusResult(outcome) = "None"
            /\ exit_code \in {"none", "1"} /\ saved_files = 0
            /\ exit_code = "none" => ENABLED main_exit)
    /\ [][ /\ (pc = "poll" /\ term' = "CANCELLED")
               => (outcome' = "cancelled" /\ pc' = "done" /\ polls' = polls + 1)
           /\ term = "CANCELLED"
               => (polls' = polls /\ now' = now /\ exit_code' = "1") ]_vars

\* The first poll returned CANCELLED before the timeout had elapsed and the
\* run has ended with exit code 1.
C30_Witness ==
    /\ mode = "remote" /\ outcome = "cancelled" /\ exit_code = "1" /\ polls = 1
    /\ now - start_time < timeout /\ saved_files = 0

\* C31: when the API key or the endpoint id is missing, check_credentials
\* returns false and the run ends with sys.exit(1) at once: no submission
\* and no status poll is ever issued.
C31_NoRequestWithoutCredentials ==
    /\ (credentials_ok # "none"
        /\ (OrElse(args.api_key, runpod_config.api_key) = ""
            \/ OrElse(args.endpoint_id, runpod_config.endpoint_id) = "")) =>
        /\ credentials_ok = "False"
        /\ pc = "done" /\ outcome = "config_error" /\ exit_code = "1"
        /\ submits = 0 /\ polls = 0 /\ submit_resp = "none" /\ now = 0
    /\ submits + polls > 0 => (credentials_ok = "True" /\ api_key # "" /\ endpoint_id # "")

\* The key is given on the command line, the endpoint id nowhere.
C31_Witness ==
    /\ args.api_key = "arg key" /\ args.endpoint_id = "" /\ runpod_config.endpoint_id = ""
    /\ credentials_ok = "False" /\ exit_code = "1" /\ submits = 0 /\ polls = 0

\* C32: given the same timeout, the same poll interval (the local loop's
\* fixed two seconds) and the same answers, wait_for_completion and
\* poll_status issue the same number of polls and end in the same outcome.
C32_SameContract ==
    (/\ both_interval = LocalPollSleep
     /\ local_run.outcome # "none" /\ remote_run.outcome # "none") =>
        /\ local_run.polls = remote_run.polls
        /\ local_run.outcome = remote_run.outcome

\* The steps of one request in the order handler takes them (handler.py:492-548).
Chain ==
    <<"input", "ensure", "diag", "refs", "validate", "queue", "wait", "collect",
      "cleanup", "success">>

\* C33: the steps of one request are taken in the order of the chain and
\* each only after every earlier one went through: the workflow is queued
\* only after ensure_comfyui_running returned true, the reference images
\* were written and validate_workflow returned the empty list; success is
\* returned only at the end of the whole chain; after a step that failed no
\* later step is performed.
C33_StepsInOrder ==
    /\ Len(performed) <= Len(Chain)
    /\ \A i \in 1..Len(performed) :
        /\ performed[i].step = Chain[i]
        /\ i < Len(performed) => performed[i].result = "ok"
    /\ (\E i \in 1..Len(performed) : performed[i].step = "queue") =>
        /\ performed[2] = [step |-> "ensure", result |-> "ok"]
        /\ performed[4] = [step |-> "refs", result |-> "ok"]
        /\ validate_workflow(event.workflow) = <<>>
    /\ response.status = "success" =>
        /\ Len(performed) = Len(Chain)
        /\ performed[Len(Chain)].result = "ok"
    /\ failed_step # "none" =>
        /\ performed # <<>>
        /\ performed[Len(performed)].step = failed_step
        /\ response.status # "success"

C33_Witness ==
    /\ hpc = "returned" /\ response.status = "success" /\ event.reference_images
    /\ Len(performed) = Len(Chain)

StepOf(t) == spc'[t] # spc[t] \/ call'[t] # call[t]

\* The step changes neither the handle, the flag nor any process.
NothingChanged ==
    /\ comfyui_process' = comfyui_process
    /\ server_ready' = server_ready
    /\ proc' = proc
    /\ total_spawns' = total_spawns

\* C36: the supervisor's calls are idempotent on a running worker: an
\* ensure_comfyui_running that finds the process alive and whose liveness
\* probe answers 200 returns true and changes nothing, and it returns true
\* at the probe only then; a start_comfyui_server that finds the handle set
\* and the flag true returns true, spawns nothing and changes nothing.
C36_IdempotentWhenRunning ==
    [][\A t \in Threads :
        StepOf(t) =>
          /\ (call[t] = "ensure" /\ via'[t] = "none") =>
               (NothingChanged /\ spawns'[t] = 0)
          /\ (spc[t] = "e_probe" /\ comfyui_process # None) =>
               ((got200'[t] <=> (spc'[t] = "idle" /\ ret'[t] = "true"))
                /\ (got200'[t] => NothingChanged))
          /\ (spc[t] = "s_guard" /\ comfyui_process # None /\ server_ready) =>
               (spc'[t] = "idle" /\ ret'[t] = "true" /\ NothingChanged
                /\ spawns'[t] = spawns[t])
          /\ (spc[t] = "s_guard" /\ spc'[t] = "idle") =>
               (comfyui_process # None /\ server_ready) ]_vars

\* Thread 1's start found the worker that thread 2 had started meanwhile.
C36_Witness ==
    /\ Returned(1) /\ call[1] = "ensure" /\ via[1] = "stopped" /\ ret[1] = "true"
    /\ spawns[1] = 0 /\ server_ready /\ comfyui_process # None
    /\ Returned(2) /\ call[2] = "ensure" /\ spawns[2] = 1 /\ got200[2] /\ ret[2] = "true"

\* Thread t is inside start_comfyui_server.
Starting(t) == spc[t] \in {"s_guard", "s_spawn", "s_wait"}

\* C37: with requests handled one at a time, whenever no start_comfyui_server
\* call is in progress server_ready is true iff comfyui_process is not None;
\* and when a call of start_comfyui_server or ensure_comfyui_running has
\* returned, it has returned a boolean, which equals server_ready and equals
\* comfyui_process is not None.
C37_FlagMatchesHandle ==
    \A t \in SeqThreads :
        /\ ~Starting(t) => (server_ready <=> comfyui_process # None)
        /\ Returned(t) =>
            /\ ret[t] \in {"true", "false"}
            /\ (ret[t] = "true") <=> server_ready
            /\ (ret[t] = "true") <=> (comfyui_process # None)

\* A worker that stopped answering was killed and its restart failed.
C37_Witness ==
    /\ Returned(1) /\ call[1] = "ensure" /\ via[1] = "unresponsive" /\ ret[1] = "false"
    /\ comfyui_process = None /\ ~server_ready /\ spawns[1] = 1

\* C38: at most one reader thread writes to the buffer: once the reader of
\* the new process is started (the 0 in put_by), the reader of the previous
\* process enqueues no line, so that lines of two generations are never
\* interleaved.
C38_OneWriter ==
    \A i, j \in 1..Len(put_by) : (i < j /\ put_by[i] = 0) => put_by[j] # 1

\* C39: reading the log buffer consumes it: a line a call has returned is no
\* longer in the buffer and is returned by no other call; a call returns at
\* most max_lines lines, and with an empty buffer it ends at once instead of
\* blocking.
C39_ReadConsumes ==
    /\ Len(logs) <= RecentLines
    /\ ~reported_twice
    /\ \A i \in 1..Len(comfyui_output_queue) :
        comfyui_output_queue[i] \notin reported \cup Range(logs)
    /\ lpc = "get" => ENABLED logs_get
    /\ (lpc = "get" /\ comfyui_output_queue = <<>>) => ENABLED (logs_get /\ lpc' = "done")

\* Two calls: the first returned lines 1 and 2, the second line 3.
C39_Witness ==
    /\ lpc = "done" /\ logs = <<3>> /\ reported = {1, 2, 3}
    /\ comfyui_output_queue = <<>> /\ captured = 3

\* C40: the sweep of cleanup_outputs runs only after the artifacts of the
\* request have been collected and only in a request that no step has
\* failed; a request answered with an error has swept nothing; the sweep
\* removes only regular files older than the retention window, never a
\* younger file and never a directory.
C40_SweepAfterCollectOldFilesOnly ==
    /\ kpc # "off" =>
        /\ failed_step = "none"
        /\ Len(performed) >= 8
        /\ performed[8] = [step |-> "collect", result |-> "ok"]
    /\ failed_step # "none" => (kpc = "off" /\ removed = {})
    /\ response.status = "success" => kpc = "returned"
    /\ \A i \in removed : output_dir.entries[i] = "old file"
    /\ \A i \in 1..Len(output_dir.entries) :
        output_dir.entries[i] \in {"young file", "directory"} => i \notin removed

C40_Witness ==
    /\ response.status = "success" /\ kpc = "returned"
    /\ output_dir.entries = <<"young file", "old file", "directory">>
    /\ removed = {2} /\ cleanup_ret = 1

====
